---- MODULE Spec2Model ----
(***************************************************************************)
(* Model of the research pipeline of personal-chat-ai                      *)
(* (src/agents/research_agent.py, src/agents/models/research_models.py).   *)
(*                                                                         *)
(* Text is a sequence of one-character strings, so that the regular        *)
(* expressions of _regex_anonymize, str.strip, str.split, str.lower and    *)
(* the substring test of the fallback heuristic are computed character by  *)
(* character, as Python computes them.                                     *)
(*                                                                         *)
(* A float score v is the integer 100*k + d, where k = round(10*v) and     *)
(* v = fl(k/10) + d * 2^-54 (fl = the nearest IEEE-754 double): 0.3 is     *)
(* 300, 0.1 + 0.1 + 0.1 = 0.30000000000000004 is 301.  The order of the    *)
(* codes is the order of the doubles.                                      *)
(***************************************************************************)
EXTENDS Integers, Sequences, FiniteSets, TLC

VARIABLES
    self,          \* the ResearchAgent's configuration: num_queries, relevance_threshold
    research_input,\* the ResearchInput handed to research(), None before the call
    state,         \* the ResearchState threaded through the workflow
    pc,            \* the node the workflow is about to run
    result,        \* what research() returned, None before it returns
    llm_calls,     \* every self.llm.invoke made: the node and the text put in the prompt
    search_calls,  \* every tavily_search_tool.invoke made: the query and what it did
    analysis_path, \* the branch analyze_and_filter_documents returned from
    analysis_resp, \* what self.llm.invoke did in analyze_and_filter_documents
    trial          \* a direct call of one method: its name, arguments and outcome

vars == <<self, research_input, state, pc, result, llm_calls, search_calls,
          analysis_path, analysis_resp, trial>>

-----------------------------------------------------------------------------
(* Characters and Python's str methods *)

Digit == {"0", "1", "2", "3", "4", "5", "6", "7", "8", "9"}

LowerSeq == <<"a", "b", "c", "d", "e", "f", "g", "h", "i", "j", "k", "l", "m",
              "n", "o", "p", "q", "r", "s", "t", "u", "v", "w", "x", "y", "z">>

UpperSeq == <<"A", "B", "C", "D", "E", "F", "G", "H", "I", "J", "K", "L", "M",
              "N", "O", "P", "Q", "R", "S", "T", "U", "V", "W", "X", "Y", "Z">>

Lower == {LowerSeq[i] : i \in DOMAIN LowerSeq}

Upper == {UpperSeq[i] : i \in DOMAIN UpperSeq}

Alpha == Lower \cup Upper

Alnum == Alpha \cup Digit

\* \w of Python's re, on ASCII text
WordChar == Alnum \cup {"_"}

\* \s of Python's re and the characters str.strip() and str.split() drop
Whitespace == {" ", "\n", "\t", "\r"}

Min(S) == CHOOSE x \in S : \A y \in S : x <= y

Max(S) == CHOOSE x \in S : \A y \in S : x >= y

\* c.lower()
LowerChar(c) ==
    IF c \in Upper
    THEN LowerSeq[CHOOSE i \in DOMAIN UpperSeq : UpperSeq[i] = c]
    ELSE c

\* text.lower()
lower(text) == [i \in DOMAIN text |-> LowerChar(text[i])]

\* text.strip()
strip(text) ==
    LET keep == {i \in DOMAIN text : text[i] \notin Whitespace}
    IN  IF keep = {} THEN <<>> ELSE SubSeq(text, Min(keep), Max(keep))

\* text.split(sep) for a one-character sep: the pieces between the separators,
\* empty pieces kept
RECURSIVE split_on(_, _)
split_on(text, sep) ==
    LET at == {i \in DOMAIN text : text[i] = sep}
    IN  IF at = {}
        THEN <<text>>
        ELSE <<SubSeq(text, 1, Min(at) - 1)>>
             \o split_on(SubSeq(text, Min(at) + 1, Len(text)), sep)

\* text.split(): the maximal runs of non-whitespace characters
RECURSIVE split(_)
split(text) ==
    LET s == {i \in DOMAIN text : text[i] \notin Whitespace}
    IN  IF s = {}
        THEN <<>>
        ELSE LET b == Min(s)
                 stop == {i \in b..Len(text) : text[i] \in Whitespace}
                 e == IF stop = {} THEN Len(text) ELSE Min(stop) - 1
             IN  <<SubSeq(text, b, e)>> \o split(SubSeq(text, e + 1, Len(text)))

\* word in text
Contains(text, word) ==
    \E i \in 0..(Len(text) - Len(word)) : SubSeq(text, i + 1, i + Len(word)) = word

\* seq[:n]
Prefix(seq, n) == SubSeq(seq, 1, IF n < Len(seq) THEN n ELSE Len(seq))

-----------------------------------------------------------------------------
(* The regular expressions of _regex_anonymize.  Each XxxEnd(text, i) is the *)
(* index of the last character of the match re finds starting at i, or 0.   *)

IsWord(text, k) == k >= 1 /\ k <= Len(text) /\ text[k] \in WordChar

\* \b before position i
Boundary(text, i) == IsWord(text, i - 1) # IsWord(text, i)

\* the last index of the maximal run of characters of class C starting at i
\* (i - 1 when text[i] is not in C)
RunEnd(text, i, C) ==
    LET stop == {k \in i..Len(text) : text[k] \notin C}
    IN  IF stop = {} THEN Len(text) ELSE Min(stop) - 1

EmailLocal == Alnum \cup {".", "_", "%", "+", "-"}

EmailDomain == Alnum \cup {".", "-"}

\* [A-Z|a-z]: the | is a member of the class
EmailTld == Alpha \cup {"|"}

MinTldLen == 2

\* \b[A-Za-z0-9._%+-]+@[A-Za-z0-9.-]+\.[A-Z|a-z]{2,}\b
EmailEnd(text, i) ==
    LET l == RunEnd(text, i, EmailLocal)
    IN  IF ~Boundary(text, i) \/ l < i \/ l + 1 > Len(text) THEN 0
        ELSE IF text[l + 1] # "@" THEN 0
        ELSE
          LET d0 == l + 2
              d  == RunEnd(text, d0, EmailDomain)
              \* greedy: the domain gives back characters down to a ".",
              \* the top-level part gives back down to a \b
              ends(p) == {e \in (p + MinTldLen)..RunEnd(text, p + 1, EmailTld) :
                             Boundary(text, e + 1)}
              dots == {p \in (d0 + 1)..d : text[p] = "." /\ ends(p) # {}}
          IN  IF dots = {} THEN 0 ELSE Max(ends(Max(dots)))

MinApiKeyLen == 32

\* \b[A-Za-z0-9]{32,}\b
ApiKeyEnd(text, i) ==
    LET e == RunEnd(text, i, Alnum)
    IN  IF Boundary(text, i) /\ e - i + 1 >= MinApiKeyLen /\ Boundary(text, e + 1)
        THEN e ELSE 0

SkKeyLen == 48

\* sk-[A-Za-z0-9]{48}
SkKeyEnd(text, i) ==
    IF /\ i + 2 + SkKeyLen <= Len(text)
       /\ SubSeq(text, i, i + 2) = <<"s", "k", "-">>
       /\ \A k \in (i + 3)..(i + 2 + SkKeyLen) : text[k] \in Alnum
    THEN i + 2 + SkKeyLen ELSE 0

MaxOctetLen == 3

\* [0-9]{1,3}\. starting at i: the index of the "." or 0
OctetDot(text, i) ==
    LET e == RunEnd(text, i, Digit)
    IN  IF i >= 1 /\ e >= i /\ e - i + 1 <= MaxOctetLen /\ e + 1 <= Len(text)
        THEN (IF text[e + 1] = "." THEN e + 1 ELSE 0)
        ELSE 0

\* \b(?:[0-9]{1,3}\.){3}[0-9]{1,3}\b
IpEnd(text, i) ==
    LET p1 == OctetDot(text, i)
        p2 == IF p1 = 0 THEN 0 ELSE OctetDot(text, p1 + 1)
        p3 == IF p2 = 0 THEN 0 ELSE OctetDot(text, p2 + 1)
        e  == RunEnd(text, p3 + 1, Digit)
    IN  IF Boundary(text, i) /\ p3 # 0 /\ e > p3 /\ e - p3 <= MaxOctetLen
           /\ Boundary(text, e + 1)
        THEN e ELSE 0

PhoneSep == {"-", "."}

AllDigits(text, a, b) == b <= Len(text) /\ \A k \in a..b : text[k] \in Digit

\* the position after an optional [-.] at j
SkipSep(text, j) == IF j <= Len(text) /\ text[j] \in PhoneSep THEN j + 1 ELSE j

\* \b\d{3}[-.]?\d{3}[-.]?\d{4}\b
PhoneEnd(text, i) ==
    LET a == SkipSep(text, i + 3)
        b == SkipSep(text, a + 3)
    IN  IF /\ Boundary(text, i)
           /\ AllDigits(text, i, i + 2)
           /\ AllDigits(text, a, a + 2)
           /\ AllDigits(text, b, b + 3)
           /\ Boundary(text, b + 4)
        THEN b + 3 ELSE 0

\* the last index of the maximal run of non-whitespace characters starting at i
NonSpaceRunEnd(text, i) ==
    LET stop == {k \in i..Len(text) : text[k] \in Whitespace}
    IN  IF stop = {} THEN Len(text) ELSE Min(stop) - 1

\* https?://[^\s]+
UrlEnd(text, i) ==
    LET j == IF i + 4 <= Len(text) /\ text[i + 4] = "s" THEN i + 5 ELSE i + 4
        e == NonSpaceRunEnd(text, j + 3)
    IN  IF /\ j + 3 <= Len(text)
           /\ SubSeq(text, i, i + 3) = <<"h", "t", "t", "p">>
           /\ SubSeq(text, j, j + 2) = <<":", "/", "/">>
           /\ e >= j + 3
        THEN e ELSE 0

\* the match of rule `rule` starting at i
MatchEnd(rule, text, i) ==
    CASE rule = "email"   -> EmailEnd(text, i)
      [] rule = "api_key" -> ApiKeyEnd(text, i)
      [] rule = "sk_key"  -> SkKeyEnd(text, i)
      [] rule = "ip"      -> IpEnd(text, i)
      [] rule = "phone"   -> PhoneEnd(text, i)
      [] rule = "url"     -> UrlEnd(text, i)

Placeholder(rule) ==
    CASE rule = "email"   -> <<"[", "E", "M", "A", "I", "L", "]">>
      [] rule = "api_key" -> <<"[", "A", "P", "I", "_", "K", "E", "Y", "]">>
      [] rule = "sk_key"  -> <<"[", "A", "P", "I", "_", "K", "E", "Y", "]">>
      [] rule = "ip"      -> <<"[", "I", "P", "_", "A", "D", "D", "R", "E", "S", "S", "]">>
      [] rule = "phone"   -> <<"[", "P", "H", "O", "N", "E", "]">>
      [] rule = "url"     -> <<"[", "U", "R", "L", "]">>

\* re.sub(rule, placeholder, text) from position i on: the text up to the
\* leftmost match is copied, the match is replaced and the scan goes on after it
RECURSIVE re_sub_from(_, _, _)
re_sub_from(rule, text, i) ==
    LET starts == {k \in i..Len(text) : MatchEnd(rule, text, k) >= k}
    IN  IF starts = {} THEN SubSeq(text, i, Len(text))
        ELSE LET m == Min(starts)
             IN  SubSeq(text, i, m - 1) \o Placeholder(rule)
                 \o re_sub_from(rule, text, MatchEnd(rule, text, m) + 1)

re_sub(rule, text) == re_sub_from(rule, text, 1)

\* the substitutions, in the order the code applies them
AnonymizeRules == <<"email", "api_key", "sk_key", "ip", "phone", "url">>

RECURSIVE apply_rules(_, _)
apply_rules(rules, text) ==
    IF rules = <<>> THEN text
    ELSE apply_rules(Tail(rules), re_sub(Head(rules), text))

_regex_anonymize(text) == apply_rules(AnonymizeRules, text)

-----------------------------------------------------------------------------
(* Python values *)

\* None, for the optional fields of the state and for research()'s pending result
None == [type |-> "None"]

\* an exception travelling up the call stack
Raise == [type |-> "Exception"]

\* a str held in an Optional[str] field
Str(s) == [type |-> "str", value |-> s]

-----------------------------------------------------------------------------
(* src/agents/models/research_models.py *)

ResearchInput(context, objective) ==
    [type |-> "ResearchInput", context |-> context, objective |-> objective]

ValidationError == [type |-> "ValidationError"]

\* 0.0 and 1.0 of Field(ge=0, le=1)
ScoreMin == 0

ScoreMax == 1000

\* SearchResult without Field(ge=0, le=1): every relevance_score is taken
SearchResult_unvalidated(title, url, content, relevance_score, summary, source_domain) ==
    [type |-> "SearchResult", title |-> title, url |-> url,
     content |-> content, relevance_score |-> relevance_score,
     summary |-> summary, source_domain |-> source_domain]

\* SearchResult(...): the object, or ValidationError when relevance_score is
\* outside ge=0, le=1
SearchResult(title, url, content, relevance_score, summary, source_domain) ==
    IF relevance_score >= ScoreMin /\ relevance_score <= ScoreMax
    THEN [type |-> "SearchResult", title |-> title, url |-> url,
          content |-> content, relevance_score |-> relevance_score,
          summary |-> summary, source_domain |-> source_domain]
    ELSE ValidationError

\* research_timestamp is datetime.now(): no claim reads it, the model leaves it out
ResearchOutput(original_objective, anonymized_queries, selected_documents, total_documents_found) ==
    [type |-> "ResearchOutput",
     original_objective |-> original_objective,
     anonymized_queries |-> anonymized_queries,
     selected_documents |-> selected_documents,
     total_documents_found |-> total_documents_found]

-----------------------------------------------------------------------------
(* ResearchAgent: the helpers of the five nodes *)

\* anonymize_context falling back to the context as it is when the LLM raises
anonymize_context_unsanitized(context, resp) ==
    IF resp.kind = "raise"
    THEN context
    ELSE _regex_anonymize(strip(resp.content))

\* anonymize_context: resp is what self.llm.invoke did, a text or a raise
anonymize_context(context, resp) ==
    IF resp.kind = "raise"
    THEN _regex_anonymize(context)
    ELSE _regex_anonymize(strip(resp.content))

\* [q.strip() for q in lines if q.strip()]
RECURSIVE strip_nonempty(_)
strip_nonempty(lines) ==
    IF lines = <<>> THEN <<>>
    ELSE LET q == strip(Head(lines))
         IN  (IF q # <<>> THEN <<q>> ELSE <<>>) \o strip_nonempty(Tail(lines))

\* generate_search_queries without the cut queries[:num_queries]
generate_search_queries_uncut(anonymized_context, objective, num_queries, resp) ==
    IF resp.kind = "raise"
    THEN <<objective>>
    ELSE LET queries == strip_nonempty(split_on(strip(resp.content), "\n"))
         IN  IF Len(queries) < num_queries
             THEN Append(queries, objective)
             ELSE queries

\* generate_search_queries answering a failed call with num_queries copies of
\* the objective
generate_search_queries_refilled(anonymized_context, objective, num_queries, resp) ==
    IF resp.kind = "raise"
    THEN [i \in 1..num_queries |-> objective]
    ELSE LET queries == strip_nonempty(split_on(strip(resp.content), "\n"))
             padded  == IF Len(queries) < num_queries
                        THEN Append(queries, objective)
                        ELSE queries
         IN  Prefix(padded, num_queries)

\* generate_search_queries
generate_search_queries(anonymized_context, objective, num_queries, resp) ==
    IF resp.kind = "raise"
    THEN <<objective>>
    ELSE LET queries == strip_nonempty(split_on(strip(resp.content), "\n"))
             padded  == IF Len(queries) < num_queries
                        THEN Append(queries, objective)
                        ELSE queries
         IN  Prefix(padded, num_queries)

\* the documents one tavily_search_tool.invoke contributes to all_results:
\* a list as it is, the "results" of a dict that has them, nothing otherwise
search_results_of(resp) ==
    CASE resp.kind = "list" -> resp.items
      [] resp.kind = "dict" /\ resp.has_results -> resp.results
      [] OTHER -> <<>>

\* the loop of search_node given up at the first query that raises
RECURSIVE search_all_aborting(_)
search_all_aborting(resps) ==
    IF resps = <<>> THEN <<>>
    ELSE IF Head(resps).kind = "raise" THEN <<>>
    ELSE search_results_of(Head(resps)) \o search_all_aborting(Tail(resps))

\* the loop of search_node left at the first dict that has no "results"
RECURSIVE search_all_stopping(_)
search_all_stopping(resps) ==
    IF resps = <<>> THEN <<>>
    ELSE IF Head(resps).kind = "dict" /\ ~Head(resps).has_results THEN <<>>
    ELSE search_results_of(Head(resps)) \o search_all_stopping(Tail(resps))

\* the loop of search_node: one response per query, in the order of the queries
RECURSIVE search_all(_)
search_all(resps) ==
    IF resps = <<>> THEN <<>>
    ELSE search_results_of(Head(resps)) \o search_all(Tail(resps))

\* url with every occurrence of the characters of `drop` removed
Remove(url, drop) ==
    LET keep == {i \in DOMAIN url : url[i] \notin drop}
        nth(j) == CHOOSE i \in keep : Cardinality({k \in keep : k <= i}) = j
    IN  IF keep = DOMAIN url THEN url
        ELSE [j \in 1..Cardinality(keep) |-> url[nth(j)]]

SchemeChars == Alnum \cup {"+", "-", "."}

\* the tab and newline characters urlsplit removes from a URL
UnsafeUrlChars == {"\t", "\r", "\n"}

\* url without its leading spaces
lstrip_spaces(url) ==
    LET lead == {i \in DOMAIN url : url[i] # " "}
    IN  IF lead = {} THEN <<>> ELSE SubSeq(url, Min(lead), Len(url))

\* the position of the ":" that ends the scheme of url, 0 when url has none
scheme_end(url) ==
    LET colon == {i \in DOMAIN url : url[i] = ":"}
    IN  IF colon = {} THEN 0
        ELSE IF /\ Min(colon) > 1
                /\ url[1] \in Alpha
                /\ \A k \in 1..(Min(colon) - 1) : url[k] \in SchemeChars
             THEN Min(colon)
             ELSE 0

\* the netloc of loc, or raised for "Invalid IPv6 URL"
checked_netloc(loc) ==
    [raised |-> (\E k \in DOMAIN loc : loc[k] = "[")
                    # (\E k \in DOMAIN loc : loc[k] = "]"),
     netloc |-> loc]

\* the netloc of a URL without its scheme: what follows "//", up to the
\* first "/", "?" or "#"
netloc_of(rest) ==
    IF Len(rest) >= 2 /\ rest[1] = "/" /\ rest[2] = "/"
    THEN LET stop == {k \in 3..Len(rest) : rest[k] \in {"/", "?", "#"}}
         IN  checked_netloc(SubSeq(rest, 3, IF stop = {} THEN Len(rest)
                                            ELSE Min(stop) - 1))
    ELSE [raised |-> FALSE, netloc |-> <<>>]

\* urlsplit of a cleaned URL
urlsplit(url) == netloc_of(SubSeq(url, scheme_end(url) + 1, Len(url)))

\* urllib.parse.urlparse(url): the netloc, or raised for "Invalid IPv6 URL"
urlparse(url) == urlsplit(lstrip_spaces(Remove(url, UnsafeUrlChars)))

Unknown == <<"u", "n", "k", "n", "o", "w", "n">>

\* _extract_domain
_extract_domain(url) ==
    LET parsed == urlparse(url)
    IN  IF parsed.raised THEN Unknown ELSE parsed.netloc

-----------------------------------------------------------------------------
(* Document analysis *)

\* score += 0.3 for a word found in the title, score += 0.1 in the content
TitleWeight == 300

ContentWeight == 100

\* The rounding of the double addition s + a: the difference, in units of
\* 2^-54, between the double nearest the exact sum and the sum of the codes.
\* Every sum below 1.0 that additions of 0.3 and 0.1 reach from 0.0 is listed
\* or exact; from 1.0 on the sum only grows and min(score, 1.0) caps it, so
\* its rounding is not tracked.
Rounding(s, a) ==
    CASE s = 200 /\ a = 100 -> 1     \* 0.2 + 0.1 = 0.30000000000000004
      [] s = 301 /\ a = 100 -> -1    \* 0.30000000000000004 + 0.1 = 0.4
      [] s = 301 /\ a = 300 -> 1     \* 0.30000000000000004 + 0.3 = 0.6000000000000001
      [] s = 600 /\ a = 300 -> -2    \* 0.6 + 0.3 = 0.8999999999999999
      [] s = 700 /\ a = 100 -> -2    \* 0.7 + 0.1 = 0.7999999999999999
      [] s = 702 /\ a = 100 -> -2    \* 0.7000000000000001 + 0.1 = 0.8
      [] s = 702 /\ a = 300 -> -2    \* 0.7000000000000001 + 0.3 = 1.0
      [] s = 798 /\ a = 300 -> -2    \* 0.7999999999999999 + 0.3 = 1.0999999999999999
      [] s = 898 /\ a = 300 -> 2     \* 0.8999999999999999 + 0.3 = 1.2
      [] s = 902 /\ a = 100 -> 2     \* 0.9000000000000001 + 0.1 = 1.0000000000000002
      [] s = 902 /\ a = 300 -> 2     \* 0.9000000000000001 + 0.3 = 1.2000000000000002
      [] s = 998 /\ a = 100 -> -2    \* 0.9999999999999999 + 0.1 = 1.0999999999999999
      [] s = 998 /\ a = 300 -> -2    \* 0.9999999999999999 + 0.3 = 1.2999999999999998
      [] OTHER -> 0

\* score += a
FloatAdd(s, a) == s + a + Rounding(s, a)

\* the loop over objective_words of _fallback_document_analysis
RECURSIVE keyword_score(_, _, _, _)
keyword_score(words, title, content, score) ==
    IF words = <<>> THEN score
    ELSE LET word == Head(words)
             s1 == IF Contains(title, word) THEN FloatAdd(score, TitleWeight) ELSE score
             s2 == IF Contains(content, word) THEN FloatAdd(s1, ContentWeight) ELSE s1
         IN  keyword_score(Tail(words), title, content, s2)

\* the score of the loop without min(score, 1.0)
fallback_score_uncapped(doc, objective) ==
    keyword_score(split(lower(objective)), lower(doc.title), lower(doc.content), 0)

\* the score the fallback gives a document: the loop, then min(score, 1.0)
fallback_score(doc, objective) ==
    LET score == keyword_score(split(lower(objective)), lower(doc.title),
                               lower(doc.content), 0)
    IN  IF score < ScoreMax THEN score ELSE ScoreMax

SummaryLimit == 200

Ellipsis == <<".", ".", ".">>

\* content[:200] + "..." if len(content) > 200 else content, of the lowered content
fallback_summary(doc) ==
    LET content == lower(doc.content)
    IN  IF Len(content) > SummaryLimit
        THEN Prefix(content, SummaryLimit) \o Ellipsis
        ELSE content

\* the sort left out: the results in the order they were appended
sort_by_score_skipped(results) == results

\* search_results.sort(key=lambda x: x.relevance_score, reverse=True): stable,
\* equal scores keep their order
RECURSIVE sort_by_score(_)
sort_by_score(results) ==
    IF results = <<>> THEN <<>>
    ELSE LET init == sort_by_score(SubSeq(results, 1, Len(results) - 1))
             x    == results[Len(results)]
             k    == Cardinality({i \in DOMAIN init :
                                     init[i].relevance_score >= x.relevance_score})
         IN  SubSeq(init, 1, k) \o <<x>> \o SubSeq(init, k + 1, Len(init))

\* the loop keeping a document only when its score is above the threshold
RECURSIVE fallback_select_strict(_, _, _)
fallback_select_strict(documents, objective, threshold) ==
    IF documents = <<>> THEN <<>>
    ELSE LET doc   == Head(documents)
             score == fallback_score(doc, objective)
             kept  == IF score > threshold
                      THEN <<SearchResult(doc.title, doc.url, doc.content, score,
                                          fallback_summary(doc),
                                          _extract_domain(doc.url))>>
                      ELSE <<>>
         IN  kept \o fallback_select_strict(Tail(documents), objective, threshold)

\* the loop keeping every document, whatever its score
RECURSIVE fallback_select_unfiltered(_, _, _)
fallback_select_unfiltered(documents, objective, threshold) ==
    IF documents = <<>> THEN <<>>
    ELSE LET doc   == Head(documents)
             score == fallback_score(doc, objective)
         IN  <<SearchResult(doc.title, doc.url, doc.content, score,
                            fallback_summary(doc), _extract_domain(doc.url))>>
             \o fallback_select_unfiltered(Tail(documents), objective, threshold)

\* the loop of _fallback_document_analysis over dict documents: the kept
\* documents, in the order of the raw ones
RECURSIVE fallback_select(_, _, _)
fallback_select(documents, objective, threshold) ==
    IF documents = <<>> THEN <<>>
    ELSE LET doc   == Head(documents)
             score == fallback_score(doc, objective)
             kept  == IF score >= threshold
                      THEN <<SearchResult(doc.title, doc.url, doc.content, score,
                                          fallback_summary(doc),
                                          _extract_domain(doc.url))>>
                      ELSE <<>>
         IN  kept \o fallback_select(Tail(documents), objective, threshold)

\* a raw document that is not a dict has no .get: AttributeError
IsDict(doc) == doc.kind = "dict"

\* _fallback_document_analysis: raised when a document is no dict, else the
\* kept documents sorted
_fallback_document_analysis(documents, objective, threshold) ==
    IF \E i \in DOMAIN documents : ~IsDict(documents[i])
    THEN [raised |-> TRUE, results |-> <<>>]
    ELSE [raised |-> FALSE,
          results |-> sort_by_score(fallback_select(documents, objective, threshold))]

\* the body of the loop skipping an entry whose SearchResult is rejected
llm_entry_skipping(entry, documents, threshold) ==
    LET none == [raised |-> FALSE, results |-> <<>>]
        fail == [raised |-> TRUE, results |-> <<>>]
    IN  IF entry.kind # "dict" THEN none
        ELSE IF entry.index_kind = "str" THEN fail
        ELSE
          LET doc_index == IF entry.index_kind = "absent" THEN 0 ELSE entry.index
          IN  IF doc_index >= Len(documents) THEN none
              ELSE IF doc_index < 0 - Len(documents) THEN fail
              ELSE IF entry.score_kind = "bad" THEN fail
              ELSE
                LET original_doc ==
                        documents[IF doc_index >= 0 THEN doc_index + 1
                                  ELSE Len(documents) + doc_index + 1]
                    relevance_score ==
                        IF entry.score_kind = "absent" THEN 0 ELSE entry.relevance_score
                    made == SearchResult(original_doc.title, original_doc.url,
                                         original_doc.content, relevance_score,
                                         entry.summary,
                                         _extract_domain(original_doc.url))
                IN  IF relevance_score >= threshold /\ made # ValidationError
                    THEN [raised |-> FALSE, results |-> <<made>>]
                    ELSE none

\* the body of the loop over analysis_results for one entry: raised, or the
\* SearchResult it appends (none when the entry is skipped)
llm_entry(entry, documents, threshold) ==
    LET none == [raised |-> FALSE, results |-> <<>>]
        fail == [raised |-> TRUE, results |-> <<>>]
    IN  IF entry.kind # "dict" THEN none
        ELSE IF entry.index_kind = "str" THEN fail
        ELSE
          LET doc_index == IF entry.index_kind = "absent" THEN 0 ELSE entry.index
          IN  IF doc_index >= Len(documents) THEN none
              ELSE IF doc_index < 0 - Len(documents) THEN fail
              ELSE IF entry.score_kind = "bad" THEN fail
              ELSE
                LET original_doc ==
                        documents[IF doc_index >= 0 THEN doc_index + 1
                                  ELSE Len(documents) + doc_index + 1]
                    relevance_score ==
                        IF entry.score_kind = "absent" THEN 0 ELSE entry.relevance_score
                    made == SearchResult(original_doc.title, original_doc.url,
                                         original_doc.content, relevance_score,
                                         entry.summary,
                                         _extract_domain(original_doc.url))
                IN  IF relevance_score >= threshold
                    THEN IF made = ValidationError THEN fail
                         ELSE [raised |-> FALSE, results |-> <<made>>]
                    ELSE none

\* the loop over analysis_results: it stops at the first entry that raises
RECURSIVE llm_select(_, _, _)
llm_select(entries, documents, threshold) ==
    IF entries = <<>> THEN [raised |-> FALSE, results |-> <<>>]
    ELSE LET first == llm_entry(Head(entries), documents, threshold)
         IN  IF first.raised THEN first
             ELSE LET rest == llm_select(Tail(entries), documents, threshold)
                  IN  [raised  |-> rest.raised,
                       results |-> first.results \o rest.results]

\* whether analyze_and_filter_documents reaches self.llm.invoke: not with no
\* documents, and not when formatting a document that is no dict raises first
analysis_calls_llm(documents) ==
    documents # <<>> /\ \A i \in DOMAIN documents : IsDict(documents[i])

\* analyze_and_filter_documents returning no document when json.loads fails
analyze_and_filter_documents_dropping(documents, threshold, resp, fb) ==
    LET fallback == [raised |-> fb.raised, results |-> fb.results, path |-> "fallback"]
    IN  IF documents = <<>>
        THEN [raised |-> FALSE, results |-> <<>>, path |-> "empty"]
        ELSE IF ~analysis_calls_llm(documents) THEN fallback
        ELSE IF resp.kind = "invalid_json"
        THEN [raised |-> FALSE, results |-> <<>>, path |-> "fallback"]
        ELSE IF resp.kind # "json_list" THEN fallback
        ELSE LET sel == llm_select(resp.entries, documents, threshold)
             IN  IF sel.raised THEN fallback
                 ELSE [raised |-> FALSE, results |-> sort_by_score(sel.results),
                       path |-> "llm"]

\* analyze_and_filter_documents: resp is what self.llm.invoke did and fb what
\* self._fallback_document_analysis(documents, objective) does where the code
\* calls it; path tells which branch produced the result
analyze_and_filter_documents(documents, threshold, resp, fb) ==
    LET fallback == [raised |-> fb.raised, results |-> fb.results, path |-> "fallback"]
    IN  IF documents = <<>>
        THEN [raised |-> FALSE, results |-> <<>>, path |-> "empty"]
        ELSE IF ~analysis_calls_llm(documents) THEN fallback
        ELSE IF resp.kind # "json_list" THEN fallback
        ELSE LET sel == llm_select(resp.entries, documents, threshold)
             IN  IF sel.raised THEN fallback
                 ELSE [raised |-> FALSE, results |-> sort_by_score(sel.results),
                       path |-> "llm"]

-----------------------------------------------------------------------------
(* The nodes of the workflow (_build_workflow) and research() *)

\* initial_state of research()
initial_state(input) ==
    [research_input     |-> input,
     anonymized_context |-> <<>>,
     search_queries     |-> <<>>,
     raw_search_results |-> <<>>,
     analyzed_documents |-> <<>>,
     final_output       |-> None,
     error              |-> None]

NoInputError == Str("No research input provided")

\* anonymize_node recording an error when the call of the LLM raises
anonymize_node_failing(st, resp) ==
    IF st.research_input = None
    THEN [st EXCEPT !.error = NoInputError]
    ELSE IF resp.kind = "raise"
    THEN [st EXCEPT !.error = Str("Error in anonymization")]
    ELSE [st EXCEPT !.anonymized_context =
                        anonymize_context(st.research_input.context, resp)]

anonymize_node(st, resp) ==
    IF st.research_input = None
    THEN [st EXCEPT !.error = NoInputError]
    ELSE [st EXCEPT !.anonymized_context =
                        anonymize_context(st.research_input.context, resp)]

query_generation_node(st, num_queries, resp) ==
    IF st.error # None THEN st
    ELSE IF st.research_input = None
    THEN [st EXCEPT !.error = NoInputError]
    ELSE [st EXCEPT !.search_queries =
                        generate_search_queries(st.anonymized_context,
                                                st.research_input.objective,
                                                num_queries, resp)]

\* resps: what tavily_search_tool.invoke did for each query, in order
search_node(st, resps) ==
    IF st.error # None THEN st
    ELSE [st EXCEPT !.raw_search_results = search_all(resps)]

\* analysis_node building the final output itself
analysis_node_assembling(st, analyzed) ==
    IF st.error # None THEN st
    ELSE IF st.research_input = None
    THEN [st EXCEPT !.error = NoInputError]
    ELSE IF analyzed.raised
         THEN [st EXCEPT !.error = Str("Error in document analysis")]
         ELSE [st EXCEPT !.analyzed_documents = analyzed.results,
                         !.final_output =
                             ResearchOutput(st.research_input.objective,
                                            st.search_queries, analyzed.results,
                                            Len(st.raw_search_results))]

\* analyzed: what analyze_and_filter_documents does for the raw documents and
\* the objective of st (it is not called once an error is recorded)
analysis_node(st, analyzed) ==
    IF st.error # None THEN st
    ELSE IF st.research_input = None
    THEN [st EXCEPT !.error = NoInputError]
    ELSE IF analyzed.raised
         THEN [st EXCEPT !.error = Str("Error in document analysis")]
         ELSE [st EXCEPT !.analyzed_documents = analyzed.results]

\* output_node counting the selected documents instead of the raw ones
output_node_counts_selected(st) ==
    IF st.error # None THEN st
    ELSE IF st.research_input = None
    THEN [st EXCEPT !.error = NoInputError]
    ELSE [st EXCEPT !.final_output =
                        ResearchOutput(st.research_input.objective,
                                       st.search_queries,
                                       st.analyzed_documents,
                                       Len(st.analyzed_documents))]

\* output_node without the check of a recorded error
output_node_unchecked(st) ==
    IF st.research_input = None
    THEN [st EXCEPT !.error = NoInputError]
    ELSE [st EXCEPT !.final_output =
                        ResearchOutput(st.research_input.objective,
                                       st.search_queries,
                                       st.analyzed_documents,
                                       Len(st.raw_search_results))]

output_node(st) ==
    IF st.error # None THEN st
    ELSE IF st.research_input = None
    THEN [st EXCEPT !.error = NoInputError]
    ELSE [st EXCEPT !.final_output =
                        ResearchOutput(st.research_input.objective,
                                       st.search_queries,
                                       st.analyzed_documents,
                                       Len(st.raw_search_results))]

\* the empty result research() builds on an error
EmptyOutput(input) == ResearchOutput(input.objective, <<>>, <<>>, 0)

\* research() without the empty result: it returns whatever final_output is
research_result_unguarded(final_state, input) == final_state.final_output

\* research() building its result from the state also when an error is recorded
research_result_partial(final_state, input) ==
    ResearchOutput(input.objective, final_state.search_queries,
                   final_state.analyzed_documents,
                   Len(final_state.raw_search_results))

\* what research() returns for the final state of the workflow
research_result(final_state, input) ==
    IF final_state.error # None THEN EmptyOutput(input)
    ELSE IF final_state.final_output # None THEN final_state.final_output
    ELSE EmptyOutput(input)

-----------------------------------------------------------------------------
(* The inputs and the two clients *)

\* ''
CtxEmpty ==
    <<>>

\* 'mail bob@x.io'
CtxEmail ==
    <<"m", "a", "i", "l", " ", "b", "o", "b", "@", "x", ".", "i", "o">>

\* 'ask bob'
CtxPlain ==
    <<"a", "s", "k", " ", "b", "o", "b">>

\* 'python testing best practices'
ObjPython ==
    <<"p", "y", "t", "h", "o", "n", " ", "t", "e", "s", "t", "i", "n", "g",
      " ", "b", "e", "s", "t", " ", "p", "r", "a", "c", "t", "i", "c", "e",
      "s">>

\* ' '
ObjBlank ==
    <<" ">>

\* ' mail [PERSON_NAME]\n'
LlmAnonymized ==
    <<" ", "m", "a", "i", "l", " ", "[", "P", "E", "R", "S", "O", "N", "_",
      "N", "A", "M", "E", "]", "\n">>

\* 'pytest tips'
LlmOneQuery ==
    <<"p", "y", "t", "e", "s", "t", " ", "t", "i", "p", "s">>

\* 'pytest tips\n\n tdd \n'
LlmTwoQueries ==
    <<"p", "y", "t", "e", "s", "t", " ", "t", "i", "p", "s", "\n", "\n", " ",
      "t", "d", "d", " ", "\n">>

\* 'a\nb\nc\nd'
LlmFourQueries ==
    <<"a", "\n", "b", "\n", "c", "\n", "d">>

\* 'Python Testing Guide'
TitleOnTopic ==
    <<"P", "y", "t", "h", "o", "n", " ", "T", "e", "s", "t", "i", "n", "g",
      " ", "G", "u", "i", "d", "e">>

\* 'https://ex.com/t'
UrlOnTopic ==
    <<"h", "t", "t", "p", "s", ":", "/", "/", "e", "x", ".", "c", "o", "m",
      "/", "t">>

\* 'about Python testing'
ContentOnTopic ==
    <<"a", "b", "o", "u", "t", " ", "P", "y", "t", "h", "o", "n", " ", "t",
      "e", "s", "t", "i", "n", "g">>

\* 'Cooking Recipes'
TitleOffTopic ==
    <<"C", "o", "o", "k", "i", "n", "g", " ", "R", "e", "c", "i", "p", "e",
      "s">>

\* 'https://cook.com/r'
UrlOffTopic ==
    <<"h", "t", "t", "p", "s", ":", "/", "/", "c", "o", "o", "k", ".", "c",
      "o", "m", "/", "r">>

\* 'dinner recipes'
ContentOffTopic ==
    <<"d", "i", "n", "n", "e", "r", " ", "r", "e", "c", "i", "p", "e", "s">>

\* 'Python'
TitleEdge ==
    <<"P", "y", "t", "h", "o", "n">>

\* 'invalid-url'
UrlEdge ==
    <<"i", "n", "v", "a", "l", "i", "d", "-", "u", "r", "l">>

\* 'Snakes'
ContentEdge ==
    <<"S", "n", "a", "k", "e", "s">>

\* 'sum'
LlmSummary ==
    <<"s", "u", "m">>

Dict(title, url, content) ==
    [kind |-> "dict", title |-> title, url |-> url, content |-> content]

DocOnTopic == Dict(TitleOnTopic, UrlOnTopic, ContentOnTopic)

DocOffTopic == Dict(TitleOffTopic, UrlOffTopic, ContentOffTopic)

DocEdge == Dict(TitleEdge, UrlEdge, ContentEdge)

\* a list item that is no dict
DocNoDict == [kind |-> "str"]

\* the fixed two-document list of the end-to-end example
TwoDocuments == <<DocOnTopic, DocOffTopic>>

Contexts == {CtxEmpty, CtxEmail, CtxPlain}

Objectives == {ObjPython, ObjBlank}

\* the request of the end-to-end example, one with an e-mail address in the
\* context, and one with a context the Sanitizer leaves as it is and a blank
\* objective
Requests ==
    {ResearchInput(CtxEmpty, ObjPython), ResearchInput(CtxEmail, ObjPython),
     ResearchInput(CtxPlain, ObjBlank)}

\* num_queries of the constructor: 1..MaxNumQueries (the default is 2)
MaxNumQueries == 2

\* relevance_threshold of the constructor: 0.5 (the default) and 0.3 (the tests)
DefaultThreshold == 500

TestThreshold == 300

Thresholds == {DefaultThreshold, TestThreshold}

LlmRaise == [kind |-> "raise"]

LlmText(content) == [kind |-> "text", content |-> content]

\* self.llm.invoke in anonymize_context: it raises, repeats the context or
\* returns an anonymized text
AnonymizeResponses(context) == {LlmRaise, LlmText(context), LlmText(LlmAnonymized)}

\* self.llm.invoke in generate_search_queries: it raises, or returns no line,
\* one line, two lines (with blank lines and spaces), or repeats the context
\* it was given as a query
QueryResponses(anonymized_context) ==
    {LlmRaise, LlmText(<<>>), LlmText(LlmOneQuery), LlmText(LlmTwoQueries),
     LlmText(anonymized_context)}

\* what tavily_search_tool.invoke can do for one query, by name
SearchBehaviours == {"raise", "list", "list_no_dict", "dict_results", "dict_error"}

\* tavily_search_tool.invoke: it raises, returns a list (of dicts, or of
\* items that are no dict), a dict with "results", or a dict with "error" only
SearchResponse(did) ==
    CASE did = "raise"        -> [kind |-> "raise"]
      [] did = "list"         -> [kind |-> "list", items |-> TwoDocuments]
      [] did = "list_no_dict" -> [kind |-> "list", items |-> <<DocNoDict>>]
      [] did = "dict_results" -> [kind |-> "dict", has_results |-> TRUE,
                                  results |-> <<DocEdge>>]
      [] did = "dict_error"   -> [kind |-> "dict", has_results |-> FALSE,
                                  results |-> <<>>]

\* one entry of the JSON array the analysis LLM answers with
Entry(index_kind, index, score_kind, relevance_score) ==
    [kind |-> "dict", index_kind |-> index_kind, index |-> index,
     score_kind |-> score_kind, relevance_score |-> relevance_score,
     summary |-> LlmSummary]

\* the second document at 0.9 (an index past the end when there is one
\* document); the document of a missing index (the first) at 0.3; the first
\* document at 1.5; an entry that is no dict
Entries ==
    {Entry("int", 1, "number", 900),
     Entry("absent", 0, "number", 300),
     Entry("int", 0, "number", 1500),
     [kind |-> "other"]}

\* the longest JSON array the analysis LLM answers with
MaxEntries == 2

EntryLists == UNION {[1..n -> Entries] : n \in 0..MaxEntries}

\* self.llm.invoke in analyze_and_filter_documents: it raises, or returns
\* text that is no JSON, JSON that is no array, or an array of entries
AnalysisResponses ==
    {LlmRaise, [kind |-> "invalid_json"], [kind |-> "json_scalar"]}
    \cup {[kind |-> "json_list", entries |-> e] : e \in EntryLists}

-----------------------------------------------------------------------------
(* The state machine *)

Init ==
    /\ self \in [num_queries : 1..MaxNumQueries, relevance_threshold : Thresholds]
    /\ research_input = None
    /\ state = None
    /\ pc = "idle"
    /\ result = None
    /\ llm_calls = <<>>
    /\ search_calls = <<>>
    /\ analysis_path = "none"
    /\ analysis_resp = None
    /\ trial = None

\* research(): the initial state is built and the workflow starts
Research ==
    /\ pc = "idle"
    /\ \E input \in Requests :
          /\ research_input' = input
          /\ state' = initial_state(input)
    /\ pc' = "anonymize"
    /\ UNCHANGED <<self, result, llm_calls, search_calls, analysis_path,
                   analysis_resp, trial>>

Anonymize ==
    /\ pc = "anonymize"
    /\ \E resp \in IF state.research_input = None THEN {LlmRaise}
                   ELSE AnonymizeResponses(state.research_input.context) :
          state' = anonymize_node(state, resp)
    /\ llm_calls' = IF state.research_input = None THEN llm_calls
                    ELSE Append(llm_calls, [node |-> "anonymize",
                                            text |-> state.research_input.context])
    /\ pc' = "query_generation"
    /\ UNCHANGED <<self, research_input, result, search_calls, analysis_path,
                   analysis_resp, trial>>

QueryGeneration ==
    /\ pc = "query_generation"
    /\ \E resp \in QueryResponses(state.anonymized_context) :
          state' = query_generation_node(state, self.num_queries, resp)
    /\ llm_calls' = IF state.error = None
                    THEN Append(llm_calls, [node |-> "query_generation",
                                            text |-> state.anonymized_context])
                    ELSE llm_calls
    /\ pc' = "search"
    /\ UNCHANGED <<self, research_input, result, search_calls, analysis_path,
                   analysis_resp, trial>>

Search ==
    /\ pc = "search"
    /\ \E did \in [DOMAIN state.search_queries -> SearchBehaviours] :
          /\ state' = search_node(state, [i \in DOMAIN did |-> SearchResponse(did[i])])
          /\ search_calls' =
                IF state.error = None
                THEN search_calls
                     \o [i \in DOMAIN did |->
                            [query |-> state.search_queries[i], did |-> did[i]]]
                ELSE search_calls
    /\ pc' = "analysis"
    /\ UNCHANGED <<self, research_input, result, llm_calls, analysis_path,
                   analysis_resp, trial>>

Analysis ==
    /\ pc = "analysis"
    /\ LET fb == _fallback_document_analysis(state.raw_search_results,
                                             state.research_input.objective,
                                             self.relevance_threshold)
       IN  \E resp \in AnalysisResponses :
          LET analyzed == analyze_and_filter_documents(
                              state.raw_search_results,
                              self.relevance_threshold, resp, fb)
          IN  /\ state' = analysis_node(state, analyzed)
              /\ analysis_path' = IF state.error = None THEN analyzed.path
                                  ELSE analysis_path
              /\ analysis_resp' = IF state.error = None
                                     /\ analysis_calls_llm(state.raw_search_results)
                                  THEN resp
                                  ELSE analysis_resp
    /\ llm_calls' = IF state.error = None /\ analysis_calls_llm(state.raw_search_results)
                    THEN Append(llm_calls, [node |-> "analysis",
                                            text |-> state.research_input.objective])
                    ELSE llm_calls
    /\ pc' = "output"
    /\ UNCHANGED <<self, research_input, result, search_calls, trial>>

\* the output node followed by an edge back to the analysis node when an error
\* is recorded
Output_retrying ==
    /\ pc = "output"
    /\ state' = output_node(state)
    /\ pc' = IF state.error # None THEN "analysis" ELSE "END"
    /\ UNCHANGED <<self, research_input, result, llm_calls, search_calls,
                   analysis_path, analysis_resp, trial>>

Output ==
    /\ pc = "output"
    /\ state' = output_node(state)
    /\ pc' = "END"
    /\ UNCHANGED <<self, research_input, result, llm_calls, search_calls,
                   analysis_path, analysis_resp, trial>>

\* research() returns; without a research input both the error branch and the
\* except branch read research_input.objective, and the AttributeError of the
\* second leaves research()
Return ==
    /\ pc = "END"
    /\ result' = IF research_input = None THEN Raise
                 ELSE research_result(state, research_input)
    /\ pc' = "returned"
    /\ UNCHANGED <<self, research_input, state, llm_calls, search_calls,
                   analysis_path, analysis_resp, trial>>

Next ==
    \/ Research
    \/ Anonymize
    \/ QueryGeneration
    \/ Search
    \/ Analysis
    \/ Output
    \/ Return

Spec == Init /\ [][Next]_vars

\* research(None): the workflow starts on a state without a research input
ResearchNoInput ==
    /\ pc = "idle"
    /\ research_input' = None
    /\ state' = initial_state(None)
    /\ pc' = "anonymize"
    /\ UNCHANGED <<self, result, llm_calls, search_calls, analysis_path,
                   analysis_resp, trial>>

NextAny ==
    \/ Research
    \/ ResearchNoInput
    \/ Anonymize
    \/ QueryGeneration
    \/ Search
    \/ Analysis
    \/ Output
    \/ Return

\* the positions of research(): before the call, at a node of the workflow, at
\* END, after the return
Positions ==
    {"idle", "anonymize", "query_generation", "search", "analysis", "output",
     "END", "returned"}

\* research() has not returned and moves to another position.  Every step of
\* NextAny is such a step, and a step of NextAny is possible at every position
\* before the return.
Advance == pc # "returned" /\ pc' \in Positions \ {pc}

\* research() called with or without a research input.  workflow.invoke runs
\* the next node as soon as the one before it has returned, and every call of a
\* client returns or raises, so a step that can be taken is taken.
FairSpec == Init /\ [][NextAny]_vars /\ WF_pc(Advance)

-----------------------------------------------------------------------------
(* Properties of a run of research() *)

\* selected_documents of the returned result
Selected == result.selected_documents

\* C1: for every request and whatever the two clients did at every stage,
\* research() returns a ResearchOutput whose original_objective is the
\* objective of the request
C1_ReturnsResult ==
    pc = "returned" =>
        /\ result.type = "ResearchOutput"
        /\ result.original_objective = research_input.objective

\* a run that recorded an error after searching and still returned a result
C1_ReturnedOnError ==
    /\ pc = "returned"
    /\ state.error # None
    /\ search_calls # <<>>
    /\ result.type = "ResearchOutput"

\* every text a result holds: the objective, the queries, the fields of the
\* selected documents
ResultTexts(r) ==
    {r.original_objective}
    \cup {r.anonymized_queries[i] : i \in DOMAIN r.anonymized_queries}
    \cup UNION {{d.title, d.url, d.content, d.summary, d.source_domain} :
                   d \in {r.selected_documents[i] : i \in DOMAIN r.selected_documents}}

\* what the Sanitizer gives for the raw context and for each text the
\* anonymization LLM can answer with
SanitizerOutputs ==
    [context \in Contexts |->
        {_regex_anonymize(context)}
        \cup {_regex_anonymize(strip(r.content)) :
                 r \in {x \in AnonymizeResponses(context) : x.kind = "text"}}]

\* the contexts the Sanitizer changes
ChangedContexts == {context \in Contexts : _regex_anonymize(context) # context}

\* the context handed to the query generation LLM is an output of the Sanitizer
QueryContextSanitized ==
    \A i \in DOMAIN llm_calls :
        llm_calls[i].node = "query_generation" =>
            llm_calls[i].text \in SanitizerOutputs[research_input.context]

\* the Search Client is called once per generated query, with that query
SearchGetsQueries ==
    search_calls # <<>> =>
        /\ Len(search_calls) = Len(state.search_queries)
        /\ \A i \in DOMAIN search_calls :
              search_calls[i].query = state.search_queries[i]

\* no field of the returned result holds a raw context that is not empty
ResultKeepsOutContext ==
    pc = "returned" /\ research_input.context # <<>> =>
        research_input.context \notin ResultTexts(result)

\* the raw context is in no prompt after ANONYMIZE and in no query
CallsKeepOutContext ==
    /\ \A i \in DOMAIN llm_calls :
          llm_calls[i].node # "anonymize"
              => llm_calls[i].text # research_input.context
    /\ \A i \in DOMAIN search_calls :
          search_calls[i].query # research_input.context

C3_ErrorGivesEmptyResult ==
    pc = "returned" /\ state.error # None =>
        /\ result.anonymized_queries = <<>>
        /\ result.selected_documents = <<>>
        /\ result.total_documents_found = 0

\* an error recorded after queries were generated and documents accumulated
C3_ErrorAfterSearch ==
    /\ pc = "returned"
    /\ state.error # None
    /\ state.search_queries # <<>>
    /\ state.raw_search_results # <<>>
    /\ result.total_documents_found = 0

\* C4 as stated: in every returned result total_documents_found is the number
\* of raw documents SEARCH accumulated
C4_TotalIsRawCountAlways ==
    pc = "returned" =>
        result.total_documents_found = Len(state.raw_search_results)

\* C4 amended: total_documents_found is the number of raw documents SEARCH
\* accumulated in every result of a run that recorded no error, also when
\* nothing was selected; it is 0 when an error was recorded
C4_TotalIsRawCount ==
    pc = "returned" =>
        result.total_documents_found =
            IF state.error = None THEN Len(state.raw_search_results) ELSE 0

\* raw documents were found and none was selected
C4_NothingSelected ==
    /\ pc = "returned"
    /\ state.error = None
    /\ Selected = <<>>
    /\ result.total_documents_found > 0


\* C5: selected_documents of every returned result is in non-increasing order
\* of relevance_score, on the LLM path and on the fallback path of ANALYZE
C5_SelectedSorted ==
    pc = "returned" =>
        \A i \in 1..(Len(Selected) - 1) :
            Selected[i].relevance_score >= Selected[i + 1].relevance_score

\* the LLM scored the first document 0.3 and then the second 0.9, and the
\* result lists the 0.9 first
C5_LlmPathReordered ==
    /\ pc = "returned"
    /\ analysis_path = "llm"
    /\ analysis_resp.entries = <<Entry("absent", 0, "number", 300),
                                 Entry("int", 1, "number", 900)>>
    /\ Len(Selected) = 2
    /\ Selected[1].relevance_score = 900
    /\ Selected[2].relevance_score = 300

\* the raw documents the Search Client can return
Documents == {DocOnTopic, DocOffTopic, DocEdge}

\* the score of the fallback heuristic for each document and objective
FallbackScores ==
    [doc \in Documents, objective \in Objectives |-> fallback_score(doc, objective)]

\* the entries of the LLM's answer that name a raw document and score it at
\* the threshold or above
EntriesAtThreshold ==
    {i \in DOMAIN analysis_resp.entries :
        LET entry == analysis_resp.entries[i]
        IN  /\ entry.kind = "dict"
            /\ (IF entry.index_kind = "absent" THEN 0 ELSE entry.index)
                   < Len(state.raw_search_results)
            /\ entry.relevance_score >= self.relevance_threshold}

\* the raw documents the fallback heuristic scores at the threshold or above
RawAtThreshold ==
    {i \in DOMAIN state.raw_search_results :
        FallbackScores[state.raw_search_results[i], research_input.objective]
            >= self.relevance_threshold}

\* C6: every selected document has relevance_score >= relevance_threshold,
\* and a score equal to the threshold is kept: on the fallback path one
\* document is selected per raw document scored at the threshold or above, on
\* the LLM path one per entry scored at the threshold or above
C6_SelectedMeetThreshold ==
    pc = "returned" /\ state.error = None =>
        /\ \A i \in DOMAIN Selected :
              Selected[i].relevance_score >= self.relevance_threshold
        /\ analysis_path = "fallback" => Len(Selected) = Cardinality(RawAtThreshold)
        /\ analysis_path = "llm" => Len(Selected) = Cardinality(EntriesAtThreshold)

\* the fallback heuristic kept a document whose score is the threshold
C6_EqualScoreKept ==
    /\ pc = "returned"
    /\ analysis_path = "fallback"
    /\ \E i \in DOMAIN Selected :
          Selected[i].relevance_score = self.relevance_threshold

\* the documents one call of the Search Client returned
ReturnedBy(did) ==
    LET response == SearchResponse(did)
    IN  CASE response.kind = "list" -> response.items
          [] response.kind = "dict" -> response.results
          [] OTHER -> <<>>

\* the results of the calls that did not raise, in the order of the calls
RECURSIVE Surviving(_)
Surviving(calls) ==
    IF calls = <<>> THEN <<>>
    ELSE (IF Head(calls).did = "raise" THEN <<>> ELSE ReturnedBy(Head(calls).did))
         \o Surviving(Tail(calls))

\* d was made from a document among docs
MadeFrom(d, docs) ==
    \E k \in DOMAIN docs :
        /\ docs[k].kind = "dict"
        /\ d.title = docs[k].title
        /\ d.url = docs[k].url
        /\ d.content = docs[k].content

\* C8: whichever calls of the Search Client raise, SEARCH records no error
\* and the raw documents are the results of the other calls, concatenated in
\* order with duplicates kept; the result returned is built from them
C8_SearchSkipsRaisingQueries ==
    pc \in {"analysis", "output", "END", "returned"} =>
        /\ state.raw_search_results = Surviving(search_calls)
        /\ pc = "analysis" => state.error = None
        /\ pc = "returned" /\ state.error = None =>
              /\ result.total_documents_found = Len(Surviving(search_calls))
              /\ \A i \in DOMAIN Selected :
                    MadeFrom(Selected[i], Surviving(search_calls))

\* the first query raised, the second returned the two documents, and a
\* document of the second is in the result
C8_FirstQueryRaised ==
    /\ pc = "returned"
    /\ Len(search_calls) = 2
    /\ search_calls[1].did = "raise"
    /\ search_calls[2].did = "list"
    /\ Selected # <<>>
    /\ result.total_documents_found = 2

\* the end-to-end example: the request, the stub that returns the two
\* documents on each call, the threshold 0.3, ANALYZE on the fallback heuristic
EndToEndExample ==
    /\ pc = "returned"
    /\ research_input = ResearchInput(CtxEmpty, ObjPython)
    /\ self.relevance_threshold = TestThreshold
    /\ \A i \in DOMAIN search_calls : search_calls[i].did = "list"
    /\ analysis_path = "fallback"

\* d is the on-topic document
IsOnTopic(d) == MadeFrom(d, <<DocOnTopic>>)

\* C9 as stated: in the end-to-end example the result holds exactly the one
\* on-topic document and a total of 2, for the configured num_queries
C9_OneDocumentOfTwo ==
    EndToEndExample =>
        /\ Len(Selected) = 1
        /\ IsOnTopic(Selected[1])
        /\ result.total_documents_found = 2

\* C9 amended: in the end-to-end example the result holds the on-topic
\* document once per query searched and nothing else, and the total is two
\* per query searched: one document of 2 when one query is searched
C9_OneDocumentPerQuery ==
    EndToEndExample =>
        /\ Len(Selected) = Len(search_calls)
        /\ \A i \in DOMAIN Selected : IsOnTopic(Selected[i])
        /\ result.total_documents_found = 2 * Len(search_calls)

\* the example with num_queries = 2 and two queries searched
C9_TwoQueriesSearched ==
    /\ EndToEndExample
    /\ self.num_queries = 2
    /\ Len(search_calls) = 2
    /\ Len(Selected) = 2
    /\ result.total_documents_found = 4

-----------------------------------------------------------------------------
(* Direct calls: one method or constructor of the module called on its own,
   as the unit tests do.  trial records the call and what it gave back. *)

\* num_queries of the agents the direct calls are made on: 1..MaxCallQueries
MaxCallQueries == 3

\* relevance_score arguments: -0.1, the double below 0.0, 0.0, 0.3, the double
\* below 1.0, 1.0, the double above 1.0, 1.5
ScoreArguments == {0 - 100, 0 - 1, 0, 300, 998, 1000, 1004, 1500}

\* the responses of self.llm.invoke the direct calls of
\* generate_search_queries are made with
CallQueryResponses ==
    {LlmRaise, LlmText(<<>>), LlmText(LlmOneQuery), LlmText(LlmTwoQueries),
     LlmText(LlmFourQueries)}

InitCalls ==
    /\ self \in [num_queries : 1..MaxCallQueries, relevance_threshold : Thresholds]
    /\ research_input = None
    /\ state = None
    /\ pc = "idle"
    /\ result = None
    /\ llm_calls = <<>>
    /\ search_calls = <<>>
    /\ analysis_path = "none"
    /\ analysis_resp = None
    /\ trial = None

\* SearchResult(title=..., relevance_score=..., ...)
CallSearchResult ==
    /\ pc = "idle"
    /\ \E doc \in {DocOnTopic, DocOffTopic, DocEdge}, score \in ScoreArguments :
          trial' = [fn   |-> "SearchResult",
                    doc  |-> doc,
                    relevance_score |-> score,
                    ret  |-> SearchResult(doc.title, doc.url, doc.content, score,
                                          LlmSummary, _extract_domain(doc.url))]
    /\ pc' = "called"
    /\ UNCHANGED <<self, research_input, state, result, llm_calls, search_calls,
                   analysis_path, analysis_resp>>

\* agent.generate_search_queries(anonymized_context, objective)
CallGenerateSearchQueries ==
    /\ pc = "idle"
    /\ \E context \in Contexts, objective \in Objectives, resp \in CallQueryResponses :
          trial' = [fn   |-> "generate_search_queries",
                    anonymized_context |-> _regex_anonymize(context),
                    objective |-> objective,
                    resp |-> resp,
                    ret  |-> generate_search_queries(_regex_anonymize(context),
                                                     objective, self.num_queries, resp)]
    /\ pc' = "called"
    /\ UNCHANGED <<self, research_input, state, result, llm_calls, search_calls,
                   analysis_path, analysis_resp>>

\* 'bob@x.io'
TokEmail ==
    <<"b", "o", "b", "@", "x", ".", "i", "o">>

\* 'K9K9K9K9K9K9K9K9K9K9K9K9K9K9K9K9'
TokKey ==
    <<"K", "9", "K", "9", "K", "9", "K", "9", "K", "9", "K", "9", "K", "9",
      "K", "9", "K", "9", "K", "9", "K", "9", "K", "9", "K", "9", "K", "9",
      "K", "9", "K", "9">>

\* '1.2.3.4'
TokIp ==
    <<"1", ".", "2", ".", "3", ".", "4">>

\* '555-123-4567'
TokPhone ==
    <<"5", "5", "5", "-", "1", "2", "3", "-", "4", "5", "6", "7">>

\* 'http://a'
TokUrl ==
    <<"h", "t", "t", "p", ":", "/", "/", "a">>

\* 'hi'
TokWord ==
    <<"h", "i">>

\* ' '
TokSpace ==
    <<" ">>

\* the pieces the texts given to the Sanitizer are made of: one token of each
\* pattern, a plain word and a space
Tokens == {TokEmail, TokKey, TokIp, TokPhone, TokUrl, TokWord, TokSpace}

\* the longest text given to the Sanitizer, in tokens
MaxTokens == 2

\* the tokens of pieces put one after the other
RECURSIVE Join(_)
Join(pieces) ==
    IF pieces = <<>> THEN <<>> ELSE Head(pieces) \o Join(Tail(pieces))

\* the texts given to the Sanitizer: every sequence of at most MaxTokens tokens
SanitizerTexts ==
    UNION {{Join(pieces) : pieces \in [1..n -> Tokens]} : n \in 0..MaxTokens}

\* agent._regex_anonymize(text)
CallRegexAnonymize ==
    /\ pc = "idle"
    /\ \E text \in SanitizerTexts :
          trial' = [fn   |-> "_regex_anonymize",
                    text |-> text,
                    ret  |-> _regex_anonymize(text)]
    /\ pc' = "called"
    /\ UNCHANGED <<self, research_input, state, result, llm_calls, search_calls,
                   analysis_path, analysis_resp>>

\* agent._regex_anonymize(anonymized) on what the first call returned
CallRegexAnonymizeAgain ==
    /\ pc = "called"
    /\ trial.fn = "_regex_anonymize"
    /\ trial' = [fn   |-> "_regex_anonymize",
                 text |-> trial.ret,
                 ret  |-> _regex_anonymize(trial.ret)]
    /\ pc' = "called_again"
    /\ UNCHANGED <<self, research_input, state, result, llm_calls, search_calls,
                   analysis_path, analysis_resp>>

\* what the Sanitizer is applied to in anonymize_context
sanitizer_input(context, resp) ==
    IF resp.kind = "raise" THEN context ELSE strip(resp.content)

\* agent.anonymize_context(context)
CallAnonymizeContext ==
    /\ pc = "idle"
    /\ \E context \in SanitizerTexts :
          \E resp \in AnonymizeResponses(context) :
              trial' = [fn      |-> "anonymize_context",
                        context |-> context,
                        resp    |-> resp,
                        input   |-> sanitizer_input(context, resp),
                        ret     |-> anonymize_context(context, resp)]
    /\ pc' = "called"
    /\ UNCHANGED <<self, research_input, state, result, llm_calls, search_calls,
                   analysis_path, analysis_resp>>

\* 'http://sub.ex.org/p?q=v'
UrlWithQuery ==
    <<"h", "t", "t", "p", ":", "/", "/", "s", "u", "b", ".", "e", "x", ".",
      "o", "r", "g", "/", "p", "?", "q", "=", "v">>

\* 'https://ex.net'
UrlNoPath ==
    <<"h", "t", "t", "p", "s", ":", "/", "/", "e", "x", ".", "n", "e", "t">>

\* 'http://[x'
UrlOpenBracket ==
    <<"h", "t", "t", "p", ":", "/", "/", "[", "x">>

\* 'ex.com'
HostOnTopic ==
    <<"e", "x", ".", "c", "o", "m">>

\* 'sub.ex.org'
HostWithQuery ==
    <<"s", "u", "b", ".", "e", "x", ".", "o", "r", "g">>

\* 'ex.net'
HostNoPath ==
    <<"e", "x", ".", "n", "e", "t">>

\* the urls given to _extract_domain, each with the host component it has
\* (<<>> when it has none)
UrlCases ==
    {[url |-> UrlOnTopic,     host |-> HostOnTopic],
     [url |-> UrlWithQuery,   host |-> HostWithQuery],
     [url |-> UrlNoPath,      host |-> HostNoPath],
     [url |-> UrlEdge,        host |-> <<>>],
     [url |-> <<>>,           host |-> <<>>],
     [url |-> UrlOpenBracket, host |-> <<>>]}

\* agent._extract_domain(url)
CallExtractDomain ==
    /\ pc = "idle"
    /\ \E case \in UrlCases :
          trial' = [fn   |-> "_extract_domain",
                    url  |-> case.url,
                    host |-> case.host,
                    ret  |-> _extract_domain(case.url)]
    /\ pc' = "called"
    /\ UNCHANGED <<self, research_input, state, result, llm_calls, search_calls,
                   analysis_path, analysis_resp>>

\* 'Python python'
ObjRepeated ==
    <<"P", "y", "t", "h", "o", "n", " ", "p", "y", "t", "h", "o", "n">>

\* a content of n characters, upper and lower case in turn
ContentOfLen(n) == [i \in 1..n |-> IF i % 2 = 1 THEN "A" ELSE "b"]

\* a document with every word of ObjPython in the title and in the content
DocFullMatch == Dict(ObjPython, UrlOnTopic, ObjPython)

\* documents whose content is exactly as long as, and one longer than, the
\* summary limit
DocAtLimit == Dict(TitleEdge, UrlOnTopic, ContentOfLen(SummaryLimit))

DocOverLimit == Dict(TitleEdge, UrlOnTopic, ContentOfLen(SummaryLimit + 1))

FallbackCallDocuments ==
    {DocOnTopic, DocOffTopic, DocEdge, DocFullMatch, DocAtLimit, DocOverLimit}

\* the longest document list of a direct call
MaxCallDocuments == 2

FallbackCallLists ==
    UNION {[1..n -> FallbackCallDocuments] : n \in 0..MaxCallDocuments}

\* relevance_threshold of the agent the direct calls are made on: 0.0 keeps
\* every document
FallbackCallThresholds == {0, TestThreshold, DefaultThreshold}

\* agent._fallback_document_analysis(documents, objective)
CallFallbackDocumentAnalysis ==
    /\ pc = "idle"
    /\ \E documents \in FallbackCallLists,
          objective \in {ObjPython, ObjBlank, ObjRepeated},
          threshold \in FallbackCallThresholds :
          trial' = [fn        |-> "_fallback_document_analysis",
                    documents |-> documents,
                    objective |-> objective,
                    threshold |-> threshold,
                    ret       |-> _fallback_document_analysis(
                                      documents, objective, threshold).results]
    /\ pc' = "called"
    /\ UNCHANGED <<self, research_input, state, result, llm_calls, search_calls,
                   analysis_path, analysis_resp>>

\* the entries of the direct calls: those of Entries and one that scores 1.5 a
\* document past the end of the list
AnalysisCallEntries == Entries \cup {Entry("int", 5, "number", 1500)}

AnalysisCallResponses ==
    {[kind |-> "json_list", entries |-> e] :
        e \in UNION {[1..n -> AnalysisCallEntries] : n \in 0..MaxEntries}}

\* agent.analyze_and_filter_documents(documents, objective)
CallAnalyzeAndFilterDocuments ==
    /\ pc = "idle"
    /\ \E documents \in {TwoDocuments, <<DocEdge>>},
          threshold \in Thresholds,
          resp \in AnalysisCallResponses :
          trial' = [fn        |-> "analyze_and_filter_documents",
                    documents |-> documents,
                    objective |-> ObjPython,
                    threshold |-> threshold,
                    resp      |-> resp,
                    fallback  |-> _fallback_document_analysis(
                                      documents, ObjPython, threshold),
                    ret       |-> analyze_and_filter_documents(
                                      documents, threshold, resp,
                                      _fallback_document_analysis(
                                          documents, ObjPython, threshold))]
    /\ pc' = "called"
    /\ UNCHANGED <<self, research_input, state, result, llm_calls, search_calls,
                   analysis_path, analysis_resp>>

NextCalls ==
    \/ CallSearchResult
    \/ CallGenerateSearchQueries
    \/ CallRegexAnonymize
    \/ CallRegexAnonymizeAgain
    \/ CallAnonymizeContext
    \/ CallExtractDomain
    \/ CallFallbackDocumentAnalysis
    \/ CallAnalyzeAndFilterDocuments

SpecCalls == InitCalls /\ [][NextCalls]_vars

-----------------------------------------------------------------------------
(* Completion Client: src/agents/model_basic.py *)

ProvGoogle == <<"g", "o", "o", "g", "l", "e">>

ProvOpenai == <<"o", "p", "e", "n", "a", "i">>

ProvAnthropic == <<"a", "n", "t", "h", "r", "o", "p", "i", "c">>

\* "Google"
ProvMixedCase == <<"G", "o", "o", "g", "l", "e">>

\* "invalid"
ProvInvalid == <<"i", "n", "v", "a", "l", "i", "d">>

SupportedProviders == {ProvGoogle, ProvOpenai, ProvAnthropic}

\* the identifiers a client is constructed with
Providers == SupportedProviders \cup {ProvMixedCase, ProvInvalid, <<>>}

\* raise ValueError(f"Unsupported model provider: ...")
ValueError == [type |-> "ValueError"]

\* the provider compared as it was given
ModelBasic_case_sensitive(model_provider) ==
    IF model_provider = ProvGoogle
    THEN [model_provider |-> model_provider, llm |-> "ChatGoogleGenerativeAI"]
    ELSE IF model_provider = ProvOpenai
    THEN [model_provider |-> model_provider, llm |-> "ChatOpenAI"]
    ELSE IF model_provider = ProvAnthropic
    THEN [model_provider |-> model_provider, llm |-> "ChatAnthropic"]
    ELSE ValueError

\* ModelBasic.__init__: the object constructed, or the exception raised
ModelBasic(model_provider) ==
    IF lower(model_provider) = ProvGoogle
    THEN [model_provider |-> lower(model_provider), llm |-> "ChatGoogleGenerativeAI"]
    ELSE IF lower(model_provider) = ProvOpenai
    THEN [model_provider |-> lower(model_provider), llm |-> "ChatOpenAI"]
    ELSE IF lower(model_provider) = ProvAnthropic
    THEN [model_provider |-> lower(model_provider), llm |-> "ChatAnthropic"]
    ELSE ValueError

\* {}
EmptyDict == [k \in {} |-> k]

\* d[k] = v
Put(d, k, v) == [j \in DOMAIN d \cup {k} |-> IF j = k THEN v ELSE d[j]]

NoMessagesProvided == "No messages provided."

ErrorOccurred == "An error occurred while processing your request."

\* str(msg) of a message that is neither a dict of a known role nor a
\* BaseMessage
str_of(msg) ==
    IF msg.type = "str" THEN msg.value
    ELSE "{'role': '" \o msg.role \o "', 'content': '" \o msg.content \o "'}"

\* the BaseMessage made of one element of messages
to_langchain_message(msg) ==
    IF msg.type = "dict"
    THEN IF msg.role = "user"
         THEN [type |-> "HumanMessage", content |-> msg.content]
         ELSE IF msg.role = "assistant"
         THEN [type |-> "AIMessage", content |-> msg.content]
         ELSE IF msg.role = "system"
         THEN [type |-> "SystemMessage", content |-> msg.content]
         ELSE [type |-> "HumanMessage", content |-> str_of(msg)]
    ELSE IF msg.type \in {"HumanMessage", "AIMessage", "SystemMessage"}
    THEN msg
    ELSE [type |-> "HumanMessage", content |-> str_of(msg)]

\* the metadata taken from a response of the backend
response_metadata_of(response) ==
    Put(IF response.response_metadata = None
        THEN EmptyDict ELSE response.response_metadata,
        "usage_metadata",
        IF response.usage_metadata = None
        THEN EmptyDict ELSE response.usage_metadata)

\* the call self.llm.invoke(langchain_messages, config=config)
llm_invoke_call(messages, callbacks) ==
    [messages |-> [i \in DOMAIN messages |-> to_langchain_message(messages[i])],
     config   |-> IF callbacks = "handler"
                  THEN [callbacks |-> <<"handler">>] ELSE EmptyDict]

\* a failure of the backend travels up to the caller
invoke_completion_with_metadata_unguarded(messages, callbacks, backend) ==
    IF messages = <<>>
    THEN [ret   |-> [content |-> NoMessagesProvided, metadata |-> EmptyDict],
          calls |-> <<>>]
    ELSE [ret   |-> IF backend.kind = "raise" THEN Raise
                    ELSE [content  |-> backend.content,
                          metadata |-> response_metadata_of(backend)],
          calls |-> <<llm_invoke_call(messages, callbacks)>>]

\* the backend is called with an empty message list too
invoke_completion_with_metadata_unchecked(messages, callbacks, backend) ==
    [ret   |-> IF backend.kind = "raise"
               THEN [content |-> ErrorOccurred, metadata |-> EmptyDict]
               ELSE [content  |-> backend.content,
                     metadata |-> response_metadata_of(backend)],
     calls |-> <<llm_invoke_call(messages, callbacks)>>]

\* ModelBasic.invoke_completion_with_metadata: what is returned and the calls
\* made to the backend; callbacks is what get_langfuse_callbacks does, backend
\* what self.llm.invoke does
invoke_completion_with_metadata(messages, callbacks, backend) ==
    IF messages = <<>>
    THEN [ret   |-> [content |-> NoMessagesProvided, metadata |-> EmptyDict],
          calls |-> <<>>]
    ELSE [ret   |-> IF backend.kind = "raise"
                    THEN [content |-> ErrorOccurred, metadata |-> EmptyDict]
                    ELSE [content  |-> backend.content,
                          metadata |-> response_metadata_of(backend)],
          calls |-> <<llm_invoke_call(messages, callbacks)>>]

\* the elements of a message list: role/content dicts (one with an unknown
\* role), a typed message and a plain string
Messages ==
    {[type |-> "dict", role |-> role, content |-> "hi"] :
        role \in {"user", "assistant", "system", "tool"}}
    \cup {[type |-> "AIMessage", content |-> "hello"],
          [type |-> "str", value |-> "hi"]}

\* the longest message list
MaxMessages == 2

MessageLists == UNION {[1..n -> Messages] : n \in 0..MaxMessages}

\* what get_langfuse_callbacks() does: raises, returns [] or a handler
CallbackOutcomes == {"raise", "empty", "handler"}

TokenUsage == [total_tokens |-> [value |-> 7]]

\* what self.llm.invoke does: raises, or returns a response
BackendOutcomes ==
    {[kind |-> "raise"]}
    \cup [kind              : {"response"},
          content           : {"Hello", ""},
          response_metadata : {None, [token_usage |-> TokenUsage]},
          usage_metadata    : {None, TokenUsage}]

InitClient ==
    /\ self = None
    /\ research_input = None
    /\ state = None
    /\ pc = "idle"
    /\ result = None
    /\ llm_calls = <<>>
    /\ search_calls = <<>>
    /\ analysis_path = "none"
    /\ analysis_resp = None
    /\ trial = None

\* ModelBasic(model_provider=...)
Construct ==
    /\ pc = "idle"
    /\ \E model_provider \in Providers :
          /\ trial' = [fn             |-> "ModelBasic",
                       model_provider |-> model_provider,
                       raised         |-> ModelBasic(model_provider) = ValueError]
          /\ self' = IF ModelBasic(model_provider) = ValueError
                     THEN None ELSE ModelBasic(model_provider)
          /\ pc' = IF ModelBasic(model_provider) = ValueError
                   THEN "failed" ELSE "constructed"
    /\ UNCHANGED <<research_input, state, result, llm_calls, search_calls,
                   analysis_path, analysis_resp>>

\* agent.invoke_completion_with_metadata(messages)
InvokeCompletion ==
    /\ pc = "constructed"
    /\ self # None
    /\ \E messages \in MessageLists :
          \E callbacks \in CallbackOutcomes :
              \E backend \in BackendOutcomes :
                  /\ trial' = [fn       |-> "invoke_completion_with_metadata",
                               messages |-> messages,
                               backend  |-> backend.kind,
                               ret      |-> invoke_completion_with_metadata(
                                                messages, callbacks, backend).ret]
                  /\ llm_calls' = llm_calls \o invoke_completion_with_metadata(
                                                messages, callbacks, backend).calls
    /\ pc' = "invoked"
    /\ UNCHANGED <<self, research_input, state, result, search_calls,
                   analysis_path, analysis_resp>>

NextClient ==
    \/ Construct
    \/ InvokeCompletion

SpecClient == InitClient /\ [][NextClient]_vars

-----------------------------------------------------------------------------
(* Properties of the direct calls *)

\* the non-empty lines of the LLM's answer, stripped
QueryLines(content) == strip_nonempty(split_on(strip(content), "\n"))

\* C7: when the LLM answers with k < num_queries non-empty lines,
\* generate_search_queries returns num_queries queries: the k lines, then
\* num_queries - k copies of the objective
C7_PaddedToNumQueries ==
    pc = "called" /\ trial.fn = "generate_search_queries"
                  /\ trial.resp.kind = "text" =>
        LET lines == QueryLines(trial.resp.content)
            k     == Len(lines)
        IN  k < self.num_queries =>
                /\ Len(trial.ret) = self.num_queries
                /\ trial.ret = lines \o [i \in 1..(self.num_queries - k) |->
                                            trial.objective]

\* C10: SearchResult with a relevance_score below 0 or above 1 is rejected
\* with a validation error and gives no object; with a score in [0,1], 0 and
\* 1 included, it gives the object holding that score
C10_ScoreValidated ==
    pc = "called" /\ trial.fn = "SearchResult" =>
        IF trial.relevance_score < ScoreMin \/ trial.relevance_score > ScoreMax
        THEN trial.ret = ValidationError
        ELSE /\ trial.ret.type = "SearchResult"
             /\ trial.ret.relevance_score = trial.relevance_score

\* the double next above 1.0 was rejected
C10_JustAboveOneRejected ==
    /\ pc = "called"
    /\ trial.fn = "SearchResult"
    /\ trial.relevance_score = 1004
    /\ trial.ret = ValidationError

\* C11: the Text Sanitizer is idempotent: applying the five ordered
\* substitutions to an already sanitized text leaves it unchanged,
\* sanitize(sanitize(x)) = sanitize(x) for every text x.
C11_SanitizerIdempotent ==
    pc = "called_again" => trial.ret = trial.text

\* the rules for an email address, an IPv4 address, a phone number and a URL
SensitiveRules == {"email", "ip", "phone", "url"}

\* a rule of SensitiveRules matches somewhere in text
Recognised(text) ==
    \E rule \in SensitiveRules :
        \E k \in DOMAIN text : MatchEnd(rule, text, k) >= k

\* every whitespace-delimited token of input that is, as a whole, a match of a
\* rule of SensitiveRules is that rule's placeholder in output
StandaloneReplaced(input, output) ==
    LET words == split(input)
        out   == split(output)
    IN  /\ Len(out) = Len(words)
        /\ \A i \in DOMAIN words :
              \A rule \in SensitiveRules :
                  MatchEnd(rule, words[i], 1) = Len(words[i])
                      => out[i] = Placeholder(rule)

\* C12: whatever the Completion Client returns or raises in anonymize_context,
\* the anonymized text holds no email address, IPv4 address, phone number or
\* URL that a rule of the Sanitizer recognises, and every such token standing
\* alone in the sanitized text's input is replaced by its placeholder.
C12_NoRecognisedTokenLeft ==
    (pc = "called" /\ trial.fn = "anonymize_context")
        => /\ ~Recognised(trial.ret)
           /\ StandaloneReplaced(trial.input, trial.ret)

\* C13: source_domain is the url's host component when the url has one, and
\* "unknown" when the url is empty or cannot be parsed into a host
\* ("invalid-url", "").
C13_DomainOrUnknown ==
    (pc = "called" /\ trial.fn = "_extract_domain")
        => trial.ret = (IF trial.host = <<>> THEN Unknown ELSE trial.host)

-----------------------------------------------------------------------------
(* Properties of the Completion Client *)

\* the constructor has just been called
Constructing == trial # None /\ trial.fn = "ModelBasic"

\* a completion call is made only on a constructed client of a supported backend
CallsNeedClient ==
    /\ self = None => (llm_calls = <<>> /\ pc # "invoked")
    /\ self # None => self.model_provider \in SupportedProviders

\* C14 as stated: an identifier outside {google, openai, anthropic} raises a
\* configuration error at construction and leaves no client object; the three
\* supported identifiers construct.
C14_OutsideSetRaises ==
    /\ CallsNeedClient
    /\ Constructing =>
          IF trial.model_provider \in SupportedProviders
          THEN ~trial.raised /\ pc = "constructed" /\ self # None
          ELSE trial.raised /\ pc = "failed" /\ self = None

\* C14: an identifier whose lower-cased form is outside {google, openai,
\* anthropic} raises a configuration error at construction and leaves no
\* client object on which a completion call could be made; an identifier
\* whose lower-cased form is in the set constructs a client of that provider.
C14_UnsupportedProviderRaises ==
    /\ CallsNeedClient
    /\ Constructing =>
          IF lower(trial.model_provider) \in SupportedProviders
          THEN /\ ~trial.raised /\ pc = "constructed" /\ self # None
               /\ self.model_provider = lower(trial.model_provider)
          ELSE trial.raised /\ pc = "failed" /\ self = None

\* the constructor was given "invalid" and raised
C14_InvalidProviderGiven ==
    /\ Constructing /\ trial.model_provider = ProvInvalid
    /\ trial.raised /\ pc = "failed" /\ self = None

\* invoke_completion_with_metadata has just returned or raised
Invoked == pc = "invoked" /\ trial.fn = "invoke_completion_with_metadata"

\* C15: for a non-empty message list, when the call of the provider backend
\* fails, the Completion Client raises nothing and returns the fixed string
\* "An error occurred while processing your request." with empty metadata.
C15_BackendFailureGivesFallback ==
    (Invoked /\ trial.messages # <<>> /\ trial.backend = "raise")
        => /\ trial.ret # Raise
           /\ trial.ret.content = ErrorOccurred
           /\ trial.ret.metadata = EmptyDict

\* the backend was called with a message list and raised
C15_BackendRaised ==
    /\ Invoked /\ trial.messages # <<>> /\ trial.backend = "raise"
    /\ Len(llm_calls) = 1

\* C16: a call with an empty message list returns "No messages provided."
\* with empty metadata, raises nothing and makes no call to the provider
\* backend.
C16_EmptyListGivesSentinel ==
    (Invoked /\ trial.messages = <<>>)
        => /\ trial.ret # Raise
           /\ trial.ret.content = NoMessagesProvided
           /\ trial.ret.metadata = EmptyDict
           /\ llm_calls = <<>>

\* the client was called with an empty message list
C16_EmptyListGiven ==
    Invoked /\ trial.messages = <<>> /\ self # None

-----------------------------------------------------------------------------
(* Properties of generate_search_queries *)

\* generate_search_queries has just returned
QueriesGenerated == pc = "called" /\ trial.fn = "generate_search_queries"

\* C18 as stated: whatever the context, the objective, num_queries >= 1 and
\* the behaviour of the LLM, generate_search_queries returns between 1 and
\* num_queries queries, each non-empty after stripping whitespace.
C18_QueriesNonEmpty ==
    QueriesGenerated =>
        /\ Len(trial.ret) \in 1..self.num_queries
        /\ \A i \in DOMAIN trial.ret : strip(trial.ret[i]) # <<>>

\* C18: generate_search_queries returns between 1 and num_queries queries;
\* each is a stripped non-empty line of the LLM's answer or the objective as
\* it was given, so every query is non-empty after stripping whenever the
\* objective is.
C18_QueriesBounded ==
    QueriesGenerated =>
        /\ Len(trial.ret) \in 1..self.num_queries
        /\ \A i \in DOMAIN trial.ret :
              \/ trial.ret[i] = trial.objective
              \/ /\ trial.resp.kind = "text"
                 /\ strip(trial.ret[i]) = trial.ret[i]
                 /\ trial.ret[i] # <<>>
                 /\ \E k \in DOMAIN QueryLines(trial.resp.content) :
                       QueryLines(trial.resp.content)[k] = trial.ret[i]
        /\ strip(trial.objective) # <<>> =>
              \A i \in DOMAIN trial.ret : strip(trial.ret[i]) # <<>>

\* the LLM answered with more lines than asked for and the list was cut
C18_AnswerCut ==
    /\ QueriesGenerated /\ trial.resp.kind = "text"
    /\ Len(QueryLines(trial.resp.content)) > self.num_queries
    /\ Len(trial.ret) = self.num_queries

-----------------------------------------------------------------------------
(* Properties of the workflow *)

\* a stage after anonymize is about to run on a state that records an error
ErrorRecorded ==
    /\ pc \in {"query_generation", "search", "analysis", "output"}
    /\ state.error # None

\* C19: once an error is recorded, every later stage (query generation,
\* search, analysis, output) leaves every field of the state as it is, the
\* error included, and calls neither the LLM nor the search tool.
C19_ErrorFreezesState ==
    [][ErrorRecorded => /\ state' = state
                        /\ llm_calls' = llm_calls
                        /\ search_calls' = search_calls]_vars

\* the error was recorded by the first stage and the four later stages have
\* run
C19_ErrorSinceFirstStage ==
    /\ pc = "END"
    /\ state.error = NoInputError
    /\ state = [initial_state(None) EXCEPT !.error = NoInputError]
    /\ llm_calls = <<>>
    /\ search_calls = <<>>

\* the edges of the workflow, from the entry point to END, and the return of
\* research()
StageOrder ==
    {<<"idle", "anonymize">>, <<"anonymize", "query_generation">>,
     <<"query_generation", "search">>, <<"search", "analysis">>,
     <<"analysis", "output">>, <<"output", "END">>, <<"END", "returned">>}

\* C20: in every invocation the stages are entered in the order anonymize,
\* query generation, search, analysis, output, each once and none skipped,
\* repeated or reordered, and, every call of a client returning or raising,
\* the invocation eventually reaches END.
C20_StagesInOrderToEnd ==
    /\ [][pc' # pc => <<pc, pc'>> \in StageOrder]_vars
    /\ (pc = "anonymize") ~> (pc = "END")

\* an invocation that called both clients at its stages has reached END
C20_EndReached ==
    /\ pc = "END"
    /\ state.final_output # None
    /\ Len(llm_calls) >= 2
    /\ search_calls # <<>>

-----------------------------------------------------------------------------
(* Two invocations of research() on one ResearchAgent, their nodes run in    *)
(* any interleaving.  research_input, state, pc, result and trial hold one   *)
(* value per invocation; trial[i] is the responses invocation i received.    *)

Invocations == {1, 2}

\* the requests of the two invocations
TwoRequests ==
    {ResearchInput(CtxEmail, ObjPython), ResearchInput(CtxPlain, ObjBlank)}

\* self.llm.invoke in anonymize_context
TwoAnonymizeResponses == {LlmRaise, LlmText(LlmAnonymized)}

\* self.llm.invoke in generate_search_queries
TwoQueryResponses == {LlmRaise, LlmText(LlmOneQuery)}

\* tavily_search_tool.invoke, by name
TwoSearchBehaviours == {"raise", "list"}

\* self.llm.invoke in analyze_and_filter_documents
TwoAnalysisResponses ==
    {LlmRaise,
     [kind |-> "json_list", entries |-> <<Entry("int", 1, "number", 900)>>]}

\* the responses an invocation has received so far
NoResponses ==
    [anonymize |-> None, query |-> None, search |-> <<>>, analysis |-> None]

\* the state dict of the first invocation, once it exists, given to every node
workflow_state_shared(states, i) ==
    IF states[1] = None THEN states[i] ELSE states[1]

\* the state dict a node of invocation i is given: initial_state is a local of
\* research(), handed to self.workflow.invoke and from node to node
workflow_state(states, i) == states[i]

\* what analyze_and_filter_documents does for the raw documents of st
analyzed_of(agent, st, resp) ==
    analyze_and_filter_documents(
        st.raw_search_results, agent.relevance_threshold, resp,
        _fallback_document_analysis(st.raw_search_results,
                                    st.research_input.objective,
                                    agent.relevance_threshold))

\* analysis_node on st with the response resp of the LLM
analysis_stage(agent, st, resp) ==
    analysis_node(st, analyzed_of(agent, st, resp))

InitTwo ==
    /\ self = [num_queries |-> 1, relevance_threshold |-> DefaultThreshold]
    /\ research_input = [i \in Invocations |-> None]
    /\ state = [i \in Invocations |-> None]
    /\ pc = [i \in Invocations |-> "idle"]
    /\ result = [i \in Invocations |-> None]
    /\ trial = [i \in Invocations |-> NoResponses]
    /\ llm_calls = <<>>
    /\ search_calls = <<>>
    /\ analysis_path = "none"
    /\ analysis_resp = None

ResearchOf(i) ==
    /\ pc[i] = "idle"
    /\ \E input \in TwoRequests :
          /\ research_input' = [research_input EXCEPT ![i] = input]
          /\ state' = [state EXCEPT ![i] = initial_state(input)]
    /\ pc' = [pc EXCEPT ![i] = "anonymize"]
    /\ UNCHANGED <<self, result, llm_calls, search_calls, analysis_path,
                   analysis_resp, trial>>

AnonymizeOf(i) ==
    /\ pc[i] = "anonymize"
    /\ \E resp \in TwoAnonymizeResponses :
          /\ state' = [state EXCEPT ![i] =
                          anonymize_node(workflow_state(state, i), resp)]
          /\ trial' = [trial EXCEPT ![i].anonymize = resp]
    /\ llm_calls' = Append(llm_calls, [run |-> i, node |-> "anonymize"])
    /\ pc' = [pc EXCEPT ![i] = "query_generation"]
    /\ UNCHANGED <<self, research_input, result, search_calls, analysis_path,
                   analysis_resp>>

QueryGenerationOf(i) ==
    /\ pc[i] = "query_generation"
    /\ \E resp \in TwoQueryResponses :
          /\ state' = [state EXCEPT ![i] =
                          query_generation_node(workflow_state(state, i),
                                                self.num_queries, resp)]
          /\ trial' = [trial EXCEPT ![i].query = resp]
    /\ llm_calls' = Append(llm_calls, [run |-> i, node |-> "query_generation"])
    /\ pc' = [pc EXCEPT ![i] = "search"]
    /\ UNCHANGED <<self, research_input, result, search_calls, analysis_path,
                   analysis_resp>>

SearchOf(i) ==
    /\ pc[i] = "search"
    /\ \E did \in [DOMAIN workflow_state(state, i).search_queries -> TwoSearchBehaviours] :
          /\ state' = [state EXCEPT ![i] =
                          search_node(workflow_state(state, i),
                                      [k \in DOMAIN did |-> SearchResponse(did[k])])]
          /\ trial' = [trial EXCEPT ![i].search =
                          [k \in DOMAIN did |-> SearchResponse(did[k])]]
    /\ pc' = [pc EXCEPT ![i] = "analysis"]
    /\ UNCHANGED <<self, research_input, result, llm_calls, search_calls,
                   analysis_path, analysis_resp>>

AnalysisOf(i) ==
    /\ pc[i] = "analysis"
    /\ \E resp \in TwoAnalysisResponses :
          /\ state' = [state EXCEPT ![i] =
                          analysis_stage(self, workflow_state(state, i), resp)]
          /\ trial' = [trial EXCEPT ![i].analysis = resp]
    /\ pc' = [pc EXCEPT ![i] = "output"]
    /\ UNCHANGED <<self, research_input, result, llm_calls, search_calls,
                   analysis_path, analysis_resp>>

OutputOf(i) ==
    /\ pc[i] = "output"
    /\ state' = [state EXCEPT ![i] = output_node(workflow_state(state, i))]
    /\ pc' = [pc EXCEPT ![i] = "END"]
    /\ UNCHANGED <<self, research_input, result, llm_calls, search_calls,
                   analysis_path, analysis_resp, trial>>

ReturnOf(i) ==
    /\ pc[i] = "END"
    /\ result' = [result EXCEPT ![i] =
                     research_result(workflow_state(state, i), research_input[i])]
    /\ pc' = [pc EXCEPT ![i] = "returned"]
    /\ UNCHANGED <<self, research_input, state, llm_calls, search_calls,
                   analysis_path, analysis_resp, trial>>

NextTwo ==
    \E i \in Invocations :
        \/ ResearchOf(i)
        \/ AnonymizeOf(i)
        \/ QueryGenerationOf(i)
        \/ SearchOf(i)
        \/ AnalysisOf(i)
        \/ OutputOf(i)
        \/ ReturnOf(i)

SpecTwo == InitTwo /\ [][NextTwo]_vars

-----------------------------------------------------------------------------
(* Properties of two invocations *)

\* the states of research() run alone on input with the responses of script
alone_anonymized(input, script) ==
    anonymize_node(initial_state(input), script.anonymize)

alone_queried(agent, input, script) ==
    query_generation_node(alone_anonymized(input, script), agent.num_queries,
                          script.query)

alone_searched(agent, input, script) ==
    search_node(alone_queried(agent, input, script), script.search)

alone_analyzed(agent, input, script) ==
    analysis_stage(agent, alone_searched(agent, input, script), script.analysis)

alone_final(agent, input, script) ==
    output_node(alone_analyzed(agent, input, script))

\* what research() run alone returns
run_alone(agent, input, script) ==
    research_result(alone_final(agent, input, script), input)

\* C17: for two invocations of research() on the same object whose stages
\* interleave in any order, the final state and the returned result of each
\* are those of that invocation run alone with the same responses of the
\* clients.
C17_InvocationsIndependent ==
    \A i \in Invocations :
        /\ pc[i] \in {"END", "returned"} =>
              state[i] = alone_final(self, research_input[i], trial[i])
        /\ pc[i] = "returned" =>
              result[i] = run_alone(self, research_input[i], trial[i])

\* both invocations have returned, with different results, after their calls
\* of the LLM alternated
C17_InterleavedRunsReturned ==
    /\ \A i \in Invocations : pc[i] = "returned"
    /\ result[1] # result[2]
    /\ Len(llm_calls) >= 4
    /\ llm_calls[1].run = 1 /\ llm_calls[2].run = 2
    /\ llm_calls[3].run = 1 /\ llm_calls[4].run = 2

-----------------------------------------------------------------------------
(* One invocation of research() with the responses it received recorded in   *)
(* trial[1]; the agent is constructed with any num_queries and threshold.    *)

InitOne ==
    /\ self \in [num_queries : 1..MaxNumQueries, relevance_threshold : Thresholds]
    /\ research_input = [i \in Invocations |-> None]
    /\ state = [i \in Invocations |-> None]
    /\ pc = [i \in Invocations |-> "idle"]
    /\ result = [i \in Invocations |-> None]
    /\ trial = [i \in Invocations |-> NoResponses]
    /\ llm_calls = <<>>
    /\ search_calls = <<>>
    /\ analysis_path = "none"
    /\ analysis_resp = None

NextOne ==
    \/ ResearchOf(1)
    \/ AnonymizeOf(1)
    \/ QueryGenerationOf(1)
    \/ SearchOf(1)
    \/ AnalysisOf(1)
    \/ OutputOf(1)
    \/ ReturnOf(1)

SpecOne == InitOne /\ [][NextOne]_vars

-----------------------------------------------------------------------------
(* Properties of the stages, given the responses of the clients *)

\* the invocation has left the ANONYMIZE stage
Anonymized == pc[1] \notin {"idle", "anonymize"}

\* the context the Sanitizer alone makes of the raw context
SanitizedRawContext == _regex_anonymize(research_input[1].context)

\* C21 as stated: after ANONYMIZE the sanitized context is sanitize(raw
\* context) when the call of the Completion Client raised and sanitize applied
\* to the LLM's output when it returned; the error flag is unset and
\* GENERATE_QUERIES runs.
C21_SanitizedLlmOutput ==
    Anonymized =>
        /\ state[1].anonymized_context =
              IF trial[1].anonymize.kind = "raise"
              THEN SanitizedRawContext
              ELSE _regex_anonymize(trial[1].anonymize.content)
        /\ pc[1] \in {"query_generation", "search"} => state[1].error = None
        /\ pc[1] = "search" => state[1].search_queries # <<>>

\* C21 (amended): after ANONYMIZE the sanitized context is sanitize(raw
\* context) when the call of the Completion Client raised and sanitize applied
\* to the LLM's output with its leading and trailing whitespace stripped when
\* it returned; the error flag is unset and GENERATE_QUERIES runs and produces
\* queries.
C21_SanitizedStrippedLlmOutput ==
    Anonymized =>
        /\ state[1].anonymized_context =
              IF trial[1].anonymize.kind = "raise"
              THEN SanitizedRawContext
              ELSE _regex_anonymize(strip(trial[1].anonymize.content))
        /\ pc[1] \in {"query_generation", "search"} => state[1].error = None
        /\ pc[1] = "search" => state[1].search_queries # <<>>

\* the call raised on a context with an e-mail address, the Sanitizer replaced
\* it, and GENERATE_QUERIES has run
C21_LlmRaisedOnSensitiveContext ==
    /\ pc[1] = "search"
    /\ trial[1].anonymize = LlmRaise
    /\ research_input[1].context = CtxEmail
    /\ state[1].anonymized_context # CtxEmail
    /\ state[1].anonymized_context = SanitizedRawContext

\* the invocation has left the GENERATE_QUERIES stage
QueriesStored == pc[1] \notin {"idle", "anonymize", "query_generation"}

\* the invocation has left the SEARCH stage
Searched == pc[1] \notin {"idle", "anonymize", "query_generation", "search"}

\* C22: when the call of the Completion Client in GENERATE_QUERIES raised, the
\* stored query list is exactly <<objective>> whatever num_queries is, no error
\* is recorded by the stage, and SEARCH calls the Search Client once.
C22_FailedCallGivesObjective ==
    QueriesStored /\ trial[1].query.kind = "raise" =>
        /\ state[1].search_queries = <<research_input[1].objective>>
        /\ pc[1] = "search" => state[1].error = None
        /\ Searched => Len(trial[1].search) = 1

\* the call raised on an agent asked for two queries and SEARCH has run
C22_FailedCallOfTwoQueries ==
    /\ pc[1] = "analysis"
    /\ self.num_queries = 2
    /\ trial[1].query = LlmRaise
    /\ Len(trial[1].search) = 1
    /\ state[1].search_queries = <<research_input[1].objective>>

-----------------------------------------------------------------------------
(* Properties of SEARCH and ANALYZE in a run of research() *)

\* the call of the Search Client was not answered with an error record
NotErrorRecord(call) == call.did # "dict_error"

\* C23: a call of the Search Client answered with an error record adds no
\* document: after SEARCH the raw documents are those of the same calls with
\* the error records left out, every query was sent, and no error is recorded.
C23_ErrorRecordAddsNothing ==
    pc = "analysis" /\ research_input # None =>
        /\ state.error = None
        /\ Len(search_calls) = Len(state.search_queries)
        /\ state.raw_search_results =
              Surviving(SelectSeq(search_calls, NotErrorRecord))

\* the first query was answered with an error record, the second with the two
\* documents, and SEARCH stored the two
C23_ErrorRecordThenList ==
    /\ pc = "analysis"
    /\ Len(search_calls) = 2
    /\ search_calls[1].did = "dict_error"
    /\ search_calls[2].did = "list"
    /\ state.raw_search_results = TwoDocuments
    /\ state.error = None

\* what the fallback heuristic returns for the raw documents, the objective and
\* the threshold of the run
FallbackOfRun ==
    _fallback_document_analysis(state.raw_search_results,
                                research_input.objective,
                                self.relevance_threshold)

\* the LLM was called in ANALYZE and answered with text that json.loads rejects
Unparseable == analysis_resp # None /\ analysis_resp.kind = "invalid_json"

\* C24: when the analysis response of the LLM cannot be parsed, the documents
\* ANALYZE stores are those the fallback heuristic returns for the same raw
\* documents, objective and threshold, and no error is recorded.
C24_UnparseableGivesFallback ==
    pc = "output" /\ Unparseable =>
        /\ state.error = None
        /\ analysis_path = "fallback"
        /\ state.analyzed_documents = FallbackOfRun.results

\* the response could not be parsed and the fallback heuristic kept a document
C24_UnparseableAndDocumentKept ==
    /\ pc = "output"
    /\ Unparseable
    /\ state.analyzed_documents # <<>>
    /\ state.raw_search_results # <<>>

-----------------------------------------------------------------------------
(* Properties of _fallback_document_analysis *)

FallbackCalled == pc = "called" /\ trial.fn = "_fallback_document_analysis"

\* how many of words, counted per occurrence, are found in text
HitsIn(text, words) ==
    Cardinality({k \in DOMAIN words : Contains(text, words[k])})

\* T: the objective words found in the title, counted per occurrence in the
\* objective
TitleHits(d, objective) == HitsIn(lower(d.title), split(lower(objective)))

\* C: the objective words found in the content
ContentHits(d, objective) == HitsIn(lower(d.content), split(lower(objective)))

\* 0.3 * T + 0.1 * C in thousandths
WeightedHits(d, objective) ==
    TitleWeight * TitleHits(d, objective) + ContentWeight * ContentHits(d, objective)

\* min(1.0, weighted) in thousandths
Capped(weighted) == IF weighted < ScoreMax THEN weighted ELSE ScoreMax

\* score is in [0, 1], is 0 when no word was found, and differs from
\* min(1.0, weighted) by 2 units at most
IsRoundedSum(score, weighted) ==
    /\ score >= ScoreMin
    /\ score <= ScoreMax
    /\ score >= Capped(weighted) - 2
    /\ score <= Capped(weighted) + 2
    /\ weighted = 0 => score = 0

\* C25 as stated: the score of every document the fallback heuristic returns
\* is min(1.0, 0.3 * T + 0.1 * C), and lies in [0, 1].
C25_ScoreIsClosedForm ==
    FallbackCalled =>
        \A i \in DOMAIN trial.ret :
            /\ trial.ret[i].relevance_score
                  = Capped(WeightedHits(trial.ret[i], trial.objective))
            /\ trial.ret[i].relevance_score >= ScoreMin
            /\ trial.ret[i].relevance_score <= ScoreMax

\* C25 (amended): every document the fallback heuristic returns is a valid
\* SearchResult whose score lies in [0, 1] and is the running double sum of
\* 0.3 and 0.1 capped at 1.0: it is 0 when no word is found and differs from
\* min(1.0, 0.3 * T + 0.1 * C) by the rounding of the additions at most (2
\* units of 2^-54 here).
C25_ScoreIsRoundedSum ==
    FallbackCalled =>
        \A i \in DOMAIN trial.ret :
            /\ trial.ret[i] # ValidationError
            /\ IsRoundedSum(trial.ret[i].relevance_score,
                            WeightedHits(trial.ret[i], trial.objective))

\* two words found in the title and in the content give 0.7999999999999999,
\* and a document with four words in both is capped at 1.0
C25_RoundedAndCapped ==
    /\ FallbackCalled
    /\ trial.objective = ObjPython
    /\ trial.documents = <<DocOnTopic, DocFullMatch>>
    /\ \E i \in DOMAIN trial.ret :
          /\ TitleHits(trial.ret[i], trial.objective) = 2
          /\ ContentHits(trial.ret[i], trial.objective) = 2
          /\ trial.ret[i].relevance_score = 798
    /\ \E i \in DOMAIN trial.ret :
          /\ WeightedHits(trial.ret[i], trial.objective) > ScoreMax
          /\ trial.ret[i].relevance_score = ScoreMax

\* C26: the summary of every document the fallback heuristic returns is the
\* first 200 characters of the document's content followed by "..." when the
\* content is longer than 200 characters, and the content itself, character
\* for character, otherwise.
C26_SummaryIsContentPrefix ==
    FallbackCalled =>
        \A i \in DOMAIN trial.ret :
            trial.ret[i].summary =
                IF Len(trial.ret[i].content) > SummaryLimit
                THEN Prefix(trial.ret[i].content, SummaryLimit) \o Ellipsis
                ELSE trial.ret[i].content

-----------------------------------------------------------------------------
(* Properties of the order of the Sanitizer's rules *)

\* the text after rules 1-4 (e-mail, API keys, IPv4, phone), before the URL rule
BeforeUrlRule(text) ==
    apply_rules(SubSeq(AnonymizeRules, 1, Len(AnonymizeRules) - 1), text)

\* the number of places where word occurs in text
Occurrences(text, word) ==
    Cardinality({i \in 0..(Len(text) - Len(word)) :
                    SubSeq(text, i + 1, i + Len(word)) = word})

\* C27: the URL rule consumes no placeholder written by rules 1-4: each of
\* [EMAIL], [API_KEY], [IP_ADDRESS] and [PHONE] occurs in the final output as
\* often as in the text the URL rule was applied to.
C27_UrlRuleKeepsPlaceholders ==
    (pc = "called" /\ trial.fn = "_regex_anonymize") =>
        \A rule \in {"email", "api_key", "ip", "phone"} :
            Occurrences(trial.ret, Placeholder(rule))
                = Occurrences(BeforeUrlRule(trial.text), Placeholder(rule))

-----------------------------------------------------------------------------
(* Properties of the documents ANALYZE selects *)

\* how many elements of docs have the title, url and content of d
CopiesOf(d, docs) ==
    Cardinality({k \in DOMAIN docs :
                    /\ docs[k].kind = "dict"
                    /\ docs[k].title = d.title
                    /\ docs[k].url = d.url
                    /\ docs[k].content = d.content})

\* how many selected documents have the title, url and content of d
SelectionsOf(d, selected) ==
    Cardinality({i \in DOMAIN selected :
                    /\ selected[i].title = d.title
                    /\ selected[i].url = d.url
                    /\ selected[i].content = d.content})

\* C28: after ANALYZE, on the fallback path and on the LLM path, the selected
\* documents are no more than the raw documents, and every raw document is
\* selected at most as many times as it occurs among the raw documents.
C28_SelectedWithinRaw ==
    pc = "output" /\ state.error = None =>
        /\ Len(state.analyzed_documents) <= Len(state.raw_search_results)
        /\ \A i \in DOMAIN state.analyzed_documents :
              SelectionsOf(state.analyzed_documents[i], state.analyzed_documents)
                  <= CopiesOf(state.analyzed_documents[i], state.raw_search_results)

-----------------------------------------------------------------------------
(* Properties of analyze_and_filter_documents *)

AnalyzeCalled == pc = "called" /\ trial.fn = "analyze_and_filter_documents"

\* an entry of the answer whose relevance_score meets the threshold and lies
\* outside [0, 1]
OutOfRange(entry, threshold) ==
    /\ entry.kind = "dict"
    /\ entry.score_kind = "number"
    /\ entry.relevance_score >= threshold
    /\ (entry.relevance_score < ScoreMin \/ entry.relevance_score > ScoreMax)

\* the index of the entry, 0 when it has none, is one of documents
NamesDocument(entry, documents) ==
    /\ entry.kind = "dict"
    /\ entry.index_kind \in {"int", "absent"}
    /\ (IF entry.index_kind = "absent" THEN 0 ELSE entry.index) < Len(documents)
    /\ (IF entry.index_kind = "absent" THEN 0 ELSE entry.index) >= 0 - Len(documents)

\* every returned document is a SearchResult with a score in [0, 1], and the
\* call did not raise
ScoresInRange ==
    /\ ~trial.ret.raised
    /\ \A i \in DOMAIN trial.ret.results :
          /\ trial.ret.results[i] # ValidationError
          /\ trial.ret.results[i].relevance_score >= ScoreMin
          /\ trial.ret.results[i].relevance_score <= ScoreMax

\* C29 as stated: when the parsed answer contains an entry whose
\* relevance_score meets the threshold and lies outside [0, 1], the result is
\* the fallback heuristic's over all raw documents; every returned score is in
\* [0, 1] and nothing is raised.
C29_OutOfRangeGivesFallback ==
    AnalyzeCalled =>
        /\ ScoresInRange
        /\ (\E k \in DOMAIN trial.resp.entries :
                OutOfRange(trial.resp.entries[k], trial.threshold))
              => /\ trial.ret.path = "fallback"
                 /\ trial.ret.results = trial.fallback.results

\* C29 (amended): when the parsed answer contains an entry that names a raw
\* document and whose relevance_score meets the threshold and lies outside
\* [0, 1], the result is the fallback heuristic's over all raw documents; an
\* entry whose index is past the end is skipped whatever its score; every
\* returned score is in [0, 1] and nothing is raised.
C29_OutOfRangeOfDocumentGivesFallback ==
    AnalyzeCalled =>
        /\ ScoresInRange
        /\ (\E k \in DOMAIN trial.resp.entries :
                /\ OutOfRange(trial.resp.entries[k], trial.threshold)
                /\ NamesDocument(trial.resp.entries[k], trial.documents))
              => /\ trial.ret.path = "fallback"
                 /\ trial.ret.results = trial.fallback.results

\* the answer scores the second document 0.9 and then the first 1.5: the
\* result is the fallback's, without the document scored 0.9
C29_ValidEntryDiscarded ==
    /\ AnalyzeCalled
    /\ trial.documents = TwoDocuments
    /\ trial.resp.entries = <<Entry("int", 1, "number", 900),
                              Entry("int", 0, "number", 1500)>>
    /\ trial.ret.path = "fallback"
    /\ trial.ret.results = trial.fallback.results
    /\ trial.ret.results # <<>>
    /\ \A i \in DOMAIN trial.ret.results :
          trial.ret.results[i].relevance_score # 900

-----------------------------------------------------------------------------
(* Properties of final_output *)

\* research() has built its PipelineState
Started == pc # "idle"

\* C30: in every PipelineState final_output is set only if no error is
\* recorded, it is absent until ASSEMBLE has run, and only the step of ASSEMBLE
\* changes it.
C30_FinalOutputOnlyByAssemble ==
    /\ [](Started =>
            /\ state.final_output # None => state.error = None
            /\ state.error # None => state.final_output = None
            /\ pc \notin {"END", "returned"} => state.final_output = None)
    /\ [][Started /\ state'.final_output # state.final_output
              => pc = "output" /\ pc' = "END"]_vars

\* ASSEMBLE has run without an error and final_output holds the result with a
\* selected document
C30_OutputAssembled ==
    /\ pc = "END"
    /\ state.error = None
    /\ state.final_output # None
    /\ state.final_output.selected_documents # <<>>

====
